---- MODULE Spec2Model ----
(***************************************************************************)
(* Market salary analysis: the percentile engine (utils/calculations.ts),  *)
(* the aggregation pipeline of the analysis dashboard and the session      *)
(* state of the application (App.tsx, DataCollection.tsx).                 *)
(*                                                                         *)
(* Numbers.  The code computes with IEEE doubles; on integer salaries the  *)
(* values that occur are exact multiples of 1/100 (the fractional part d   *)
(* of the rank is a multiple of 1/100 because the percentile is an         *)
(* integer), so a value x is represented by the integer x * Scale.         *)
(* Sample values are represented as they are; the samples of the pipeline  *)
(* are means of two integers and are kept as multiples of 1/Half.          *)
(*                                                                         *)
(* components/AnalysisDashboard.tsx holds two versions of the dashboard;   *)
(* the later one (per-position filters) is the one modelled.  Posting and  *)
(* position fields that no modelled operation reads are left out.          *)
(*                                                                         *)
(* Strings are sequences of characters, so that substring containment,     *)
(* lower-casing and equality are different operations.  A field that a     *)
(* provider item lacks has the value Undefined.                            *)
(*                                                                         *)
(* The specifications share the variables: SpecStats (one call of          *)
(* computeSalaryStats), SpecAggregate (one run of the dashboard's memos),  *)
(* Spec (the session with single crawls and all dashboard controls),       *)
(* SpecCollection (the session with batch crawls, failing and incomplete   *)
(* provider responses, added and imported positions and a clock that       *)
(* advances), SpecOverlap (single crawls of two positions and a batch      *)
(* crawl in flight together) and SpecOverlapFair (the same, with the       *)
(* provider answering and the timers firing in the end).                   *)
(***************************************************************************)
EXTENDS Integers, Sequences, FiniteSets, Bags, TLC

VARIABLES
    salaries,           \* the array handed to computeSalaryStats
    called,             \* whether computeSalaryStats has returned
    result,             \* the SalaryStats it returned
    activeTab,          \* App: "collection" or "analysis"
    crawledData,        \* App: the posting collection
    targetPositions,    \* App: the target-position list
    loadingMap,         \* DataCollection: position id -> loading flag
    errorMap,           \* DataCollection: position id -> error text
    isBatchProcessing,  \* DataCollection: the batch-processing flag
    batches,            \* handleBatchCrawl loops that are running (a bag)
    pending,            \* provider calls in flight (a bag of calls)
    now,                \* the clock read by Date.now()
    selectedLocations,  \* AnalysisDashboard: the global location filter
    searchQuery,        \* AnalysisDashboard: the position search text
    positionFilters     \* AnalysisDashboard: position id -> PositionFilter

statsVars == <<salaries, called, result>>

appVars == <<activeTab, crawledData, targetPositions, loadingMap, errorMap,
            isBatchProcessing, batches, pending, now>>

dashboardVars == <<selectedLocations, searchQuery, positionFilters>>

vars == <<salaries, called, result, activeTab, crawledData, targetPositions,
          loadingMap, errorMap, isBatchProcessing, batches, pending, now,
          selectedLocations, searchQuery, positionFilters>>

----------------------------------------------------------------------------
(* Bounds of the percentile-engine specification *)

\* longest sample handed to computeSalaryStats
MaxLen == 5

\* the values a sample is drawn from
SampleValues == {-3, 0, 10000, 15000, 20000, 25000, 30000}

\* the denominator of "percentile / 100"; values are kept as multiples of 1/Scale
Scale == 100

\* the denominator of "(min + max) / 2"; the samples of the pipeline are kept
\* as multiples of 1/Half
Half == 2

----------------------------------------------------------------------------
(* Bounds and inputs of the session specification *)

\* most postings the collection holds
MaxData == 2

\* most items in one provider response
MaxRaw == 2

\* most provider calls in flight
MaxPending == 1

\* latest clock value
MaxNow == 0

\* most handleBatchCrawl loops running
MaxBatches == 1

\* most target positions (the four seed positions and the added ones)
MaxPositions == 6

\* latest clock value of the collection specification
MaxClock == 1

\* most calls of single crawls in flight in the overlap specification
MaxOverlap == 2

\* indices (in targetPositions) of the positions whose crawl button is clicked
CrawlTargets == {1, 3}

\* the location options the user toggles
ToggledLocations == {<<"guangzhou">>}

\* the texts typed into the search box
SearchQueries == {<<>>, <<"q", "a">>}

\* the items a provider response is made of: a competitor in Guangzhou whose
\* name differs from the competitor entry in case, a competitor in Shenzhen
\* whose name contains the first one's, and another company in a district
\* of Guangzhou
RawItems ==
    {[companyName |-> <<"S", "h", "e", "i", "n">>, location |-> <<"guangzhou">>,
      minMonthlySalary |-> 10000, maxMonthlySalary |-> 20000, monthsPerYear |-> 13],
     [companyName |-> <<"S", "h", "e", "i", "n", "keji">>, location |-> <<"shenzhen">>,
      minMonthlySalary |-> 15000, maxMonthlySalary |-> 25001, monthsPerYear |-> 12],
     [companyName |-> <<"waimao", "keji">>, location |-> <<"guangzhou", "tianhe">>,
      minMonthlySalary |-> 20000, maxMonthlySalary |-> 30000, monthsPerYear |-> 14]}

\* the parsed provider responses
RawResponses == UNION {[1..n -> RawItems] : n \in 0..MaxRaw}

\* the characters /[,\uFF0C\u3001\s]+/ matches: the comma, the full-width
\* comma, the ideographic comma and white space
Separators == {",", "fullwidth comma", "ideographic comma", " "}

----------------------------------------------------------------------------
(* Strings: sequences of characters.  A Chinese word of the source is one  *)
(* character here, written in pinyin; Latin letters are themselves.        *)

\* the characters of company names in ascending order of their UTF-16 code
\* unit: upper-case letters, lower-case letters, then the Chinese characters
CodeUnitOrder ==
    <<"E", "H", "I", "N", "S", "e", "h", "i", "n", "s",
      "gongsi", "waimao", "weizhi", "bangu", "keji", "maiyuan">>

CodeUnit(c) == CHOOSE i \in DOMAIN CodeUnitOrder : CodeUnitOrder[i] = c

\* one character of String.prototype.toLowerCase
LowerChar(c) ==
    CASE c = "A" -> "a"
      [] c = "E" -> "e"
      [] c = "H" -> "h"
      [] c = "I" -> "i"
      [] c = "N" -> "n"
      [] c = "Q" -> "q"
      [] c = "S" -> "s"
      [] OTHER -> c

\* String.prototype.toLowerCase
toLowerCase(str) == [i \in DOMAIN str |-> LowerChar(str[i])]

\* String.prototype.includes: sub occurs in str as a contiguous run
includes(str, sub) ==
    \E i \in 0..(Len(str) - Len(sub)) : SubSeq(str, i + 1, i + Len(sub)) = sub

\* the default comparison of Array.prototype.sort: a < b by code units
RECURSIVE StringLess(_, _)
StringLess(a, b) ==
    IF b = <<>> THEN FALSE
    ELSE IF a = <<>> THEN TRUE
    ELSE IF CodeUnit(Head(a)) # CodeUnit(Head(b))
         THEN CodeUnit(Head(a)) < CodeUnit(Head(b))
         ELSE StringLess(Tail(a), Tail(b))

\* the value of a field that the parsed item does not have; it is no string
\* (a string is a sequence of characters, and this mark is no character)
Undefined == <<"(undefined)">>

\* the order of Array.prototype.sort without a comparator: undefined comes
\* after every string
SortsBefore(a, b) ==
    IF a = Undefined THEN FALSE
    ELSE IF b = Undefined THEN TRUE
    ELSE StringLess(a, b)

\* Array.prototype.includes / some
arrayIncludes(arr, x) == \E i \in DOMAIN arr : arr[i] = x

----------------------------------------------------------------------------
(* utils/calculations.ts *)

\* insert x into the ascending sequence s, after the elements not greater
RECURSIVE Insert(_, _)
Insert(x, s) ==
    IF s = <<>> THEN <<x>>
    ELSE IF x < Head(s) THEN <<x>> \o s
         ELSE <<Head(s)>> \o Insert(x, Tail(s))

\* faulty variant of SortAscending: the comparator is (a, b) => b - a
RECURSIVE InsertDescending(_, _)
InsertDescending(x, s) ==
    IF s = <<>> THEN <<x>>
    ELSE IF x > Head(s) THEN <<x>> \o s
         ELSE <<Head(s)>> \o InsertDescending(x, Tail(s))

RECURSIVE SortAscending_descending(_)
SortAscending_descending(s) ==
    IF s = <<>> THEN <<>>
    ELSE InsertDescending(s[Len(s)], SortAscending_descending(SubSeq(s, 1, Len(s) - 1)))

\* faulty variant of SortAscending: the copy is not sorted
SortAscending_unsorted(s) == s

\* [...salaries].sort((a, b) => a - b): a sorted copy, ascending, stable
RECURSIVE SortAscending(_)
SortAscending(s) ==
    IF s = <<>> THEN <<>>
    ELSE Insert(s[Len(s)], SortAscending(SubSeq(s, 1, Len(s) - 1)))

\* faulty variant of calculatePercentile: L = (percentile / 100) * n
calculatePercentile_rankOverN(sortedData, percentile) ==
    LET n == Len(sortedData)
        L100 == percentile * n
        k == L100 \div Scale
        d100 == L100 - k * Scale
        idx == k - 1
    IN  IF n = 0 THEN 0
        ELSE IF n = 1 THEN sortedData[1] * Scale
        ELSE IF idx < 0 THEN sortedData[1] * Scale
        ELSE IF idx >= n - 1 THEN sortedData[n] * Scale
        ELSE sortedData[idx + 1] * Scale
             + (sortedData[idx + 2] - sortedData[idx + 1]) * d100

\* faulty variant of calculatePercentile: "if (n <= 1) return 0"
calculatePercentile_singleAsEmpty(sortedData, percentile) ==
    LET n == Len(sortedData)
        L100 == percentile * (n + 1)
        k == L100 \div Scale
        d100 == L100 - k * Scale
        idx == k - 1
    IN  IF n <= 1 THEN 0
        ELSE IF idx < 0 THEN sortedData[1] * Scale
        ELSE IF idx >= n - 1 THEN sortedData[n] * Scale
        ELSE sortedData[idx + 1] * Scale
             + (sortedData[idx + 2] - sortedData[idx + 1]) * d100

\* calculatePercentile(sortedData, percentile), times Scale.
\* L = (percentile / 100) * (n + 1) is kept as L * 100; sequences are
\* 1-based here, so sortedData[idx] of the code is sortedData[idx + 1].
calculatePercentile(sortedData, percentile) ==
    LET n == Len(sortedData)
        L100 == percentile * (n + 1)
        k == L100 \div Scale
        d100 == L100 - k * Scale
        idx == k - 1
    IN  IF n = 0 THEN 0
        ELSE IF n = 1 THEN sortedData[1] * Scale
        ELSE IF idx < 0 THEN sortedData[1] * Scale
        ELSE IF idx >= n - 1 THEN sortedData[n] * Scale
        ELSE LET v_i == sortedData[idx + 1]
                 v_next == sortedData[idx + 2]
             IN  v_i * Scale + (v_next - v_i) * d100

\* faulty variant of computeSalaryStats: the empty case is not returned
\* early, so min and max are sorted[0] and sorted[-1] of an empty array
\* (-1 stands for undefined)
computeSalaryStats_noEmptyCase(sample) ==
    LET sorted == SortAscending(sample)
        n == Len(sorted)
    IN  [min |-> IF n = 0 THEN -1 ELSE sorted[1] * Scale,
         p25 |-> calculatePercentile(sorted, 25),
         p50 |-> calculatePercentile(sorted, 50),
         p75 |-> calculatePercentile(sorted, 75),
         max |-> IF n = 0 THEN -1 ELSE sorted[n] * Scale,
         sampleSize |-> n]

\* computeSalaryStats(salaries); min, p25, p50, p75 and max are times Scale
computeSalaryStats(sample) ==
    LET sorted == SortAscending(sample)
        n == Len(sorted)
    IN  IF n = 0
        THEN [min |-> 0, p25 |-> 0, p50 |-> 0, p75 |-> 0, max |-> 0, sampleSize |-> 0]
        ELSE [min |-> sorted[1] * Scale,
              p25 |-> calculatePercentile(sorted, 25),
              p50 |-> calculatePercentile(sorted, 50),
              p75 |-> calculatePercentile(sorted, 75),
              max |-> sorted[n] * Scale,
              sampleSize |-> n]

----------------------------------------------------------------------------
(* constants.ts, types.ts *)

\* the competitor list shared by the first three seed positions
SeedCompetitors ==
    <<<<"maiyuan">>, <<"luola">>, <<"lingcifang">>, <<"S", "H", "E", "I", "N">>,
      <<"keyin">>>>

\* TARGET_POSITIONS; category, responsibilities and keywords are display
\* text that no modelled operation reads
TARGET_POSITIONS ==
    <<[id |-> "1",
       name |-> <<"kuajing", "gongyingshang", "kaifa", "/", "gendan">>,
       competitors |-> SeedCompetitors],
      [id |-> "2",
       name |-> <<"haiwai", "gongyingshang", "kaifa">>,
       competitors |-> SeedCompetitors],
      [id |-> "3",
       name |-> <<"Q", "A">>,
       competitors |-> SeedCompetitors],
      [id |-> "4",
       name |-> <<"dulizhan", "yunying">>,
       competitors |-> <<<<"bangu">>, <<"xike">>, <<"dechao">>, <<"maiyuan">>,
                         <<"hete">>>>]>>

LOCATIONS ==
    <<<<"guangzhou">>, <<"shenzhen">>, <<"fuzhou">>, <<"shanghai">>, <<"hangzhou">>>>

----------------------------------------------------------------------------
(* services/geminiService.ts *)

\* target.competitors.some(c => companyName.toLowerCase().includes(c.toLowerCase()))
CompetitorTag(target, companyName) ==
    \E i \in DOMAIN target.competitors :
        includes(toLowerCase(companyName), toLowerCase(target.competitors[i]))

\* simulateMarketCrawl, success path: rawData.map((item, index) => ...), with
\* Date.now() = t.  The id `${target.id}-crawl-${Date.now()}-${index}` is the
\* tuple of its parts.
CrawlSuccess(target, rawData, t) ==
    [i \in DOMAIN rawData |->
        [id |-> <<target.id, "crawl", t, i - 1>>,
         targetPositionId |-> target.id,
         companyName |-> rawData[i].companyName,
         location |-> rawData[i].location,
         minMonthlySalary |-> rawData[i].minMonthlySalary,
         maxMonthlySalary |-> rawData[i].maxMonthlySalary,
         monthsPerYear |-> rawData[i].monthsPerYear,
         isCompetitor |-> CompetitorTag(target, rawData[i].companyName)]]

\* faulty variant of CrawlFallback: the catch block returns no posting
CrawlFallback_none(target) == <<>>

\* simulateMarketCrawl, catch block: the one fallback posting 'fallback-1'
CrawlFallback(target) ==
    <<[id |-> <<"fallback", "", 0, 1>>,
       targetPositionId |-> target.id,
       companyName |-> IF target.competitors # <<>> THEN target.competitors[1]
                       ELSE <<"weizhi", "gongsi">>,
       location |-> <<"guangzhou">>,
       minMonthlySalary |-> 15000,
       maxMonthlySalary |-> 25000,
       monthsPerYear |-> 13,
       isCompetitor |-> TRUE]>>

\* the map callback throws a TypeError: item.companyName.toLowerCase() on an
\* item without companyName (competitors.some calls it when the target has
\* a competitor)
MapThrows(target, rawData) ==
    /\ target.competitors # <<>>
    /\ \E i \in DOMAIN rawData : rawData[i].companyName = Undefined

\* simulateMarketCrawl on a response that parses to the array rawData: the
\* mapped postings, or the fallback when the mapping throws inside the try
simulateMarketCrawl(target, rawData, t) ==
    IF MapThrows(target, rawData) THEN CrawlFallback(target)
    ELSE CrawlSuccess(target, rawData, t)

----------------------------------------------------------------------------
(* App.tsx, components/DataCollection.tsx *)

\* a Record<string, V>: a function on the keys that have been set
EmptyRecord == [k \in {} |-> FALSE]

\* { ...prev, [key]: value }
Spread(prev, key, value) ==
    [k \in DOMAIN prev \cup {key} |-> IF k = key THEN value ELSE prev[k]]

\* loadingMap[pos.id] as the crawl button reads it
isLoading(id) == id \in DOMAIN loadingMap /\ loadingMap[id]

\* a provider call in flight: its target and whether the DataCollection
\* instance that started it is still mounted
Call(target, mounted) == [target |-> target, mounted |-> mounted]

PendingCount == BagCardinality(pending)

\* a handleBatchCrawl loop that is running: the targetPositions array it
\* iterates (the one of the render in which the button was clicked), the
\* index of the position it is at, whether it awaits the provider ("calling")
\* or the 500 ms timer ("delay"), and whether its DataCollection instance is
\* still mounted
Loop(positions, index, phase, mounted) ==
    [positions |-> positions, index |-> index, phase |-> phase, mounted |-> mounted]

\* the calls of a bag, all marked as started by an unmounted instance
RECURSIVE Orphaned(_, _)
Orphaned(bag, todo) ==
    IF todo = {} THEN EmptyBag
    ELSE LET c == CHOOSE x \in todo : TRUE
             rest == Orphaned(bag, todo \ {c})
             moved == [x \in {Call(c.target, FALSE)} |-> bag[c]]
         IN  rest (+) moved

\* the loops of a bag, all marked as started by an unmounted instance
RECURSIVE OrphanedLoops(_, _)
OrphanedLoops(bag, todo) ==
    IF todo = {} THEN EmptyBag
    ELSE LET l == CHOOSE x \in todo : TRUE
             rest == OrphanedLoops(bag, todo \ {l})
             moved == [x \in {Loop(l.positions, l.index, l.phase, FALSE)} |-> bag[l]]
         IN  rest (+) moved

InitApp ==
    /\ activeTab = "collection"
    /\ crawledData = <<>>
    /\ targetPositions = TARGET_POSITIONS
    /\ loadingMap = EmptyRecord
    /\ errorMap = EmptyRecord
    /\ isBatchProcessing = FALSE
    /\ batches = EmptyBag
    /\ pending = EmptyBag
    /\ now = 0
    /\ selectedLocations = <<>>
    /\ searchQuery = <<>>
    /\ positionFilters = EmptyRecord

\* setActiveTab: the other tab's component is unmounted and its state is
\* lost; the newly mounted component starts from its initial state.  Calls
\* and batch loops in flight go on, but their DataCollection instance is
\* gone.
SetActiveTab(tab) ==
    /\ tab # activeTab
    /\ activeTab' = tab
    /\ loadingMap' = EmptyRecord
    /\ errorMap' = EmptyRecord
    /\ isBatchProcessing' = FALSE
    /\ batches' = OrphanedLoops(batches, BagToSet(batches))
    /\ pending' = Orphaned(pending, BagToSet(pending))
    /\ selectedLocations' = <<>>
    /\ searchQuery' = <<>>
    /\ positionFilters' = EmptyRecord
    /\ UNCHANGED <<crawledData, targetPositions, now>>

\* handleCrawl up to the await: the crawl button of targetPositions[i] is
\* clicked (it is disabled while the position is loading or a batch runs),
\* with fewer than most calls of single crawls in flight
HandleCrawlAmong(i, most) ==
    /\ activeTab = "collection"
    /\ i \in DOMAIN targetPositions
    /\ ~isLoading(targetPositions[i].id)
    /\ ~isBatchProcessing
    /\ PendingCount < most
    /\ loadingMap' = Spread(loadingMap, targetPositions[i].id, TRUE)
    /\ errorMap' = Spread(errorMap, targetPositions[i].id, "")
    /\ pending' = pending (+) SetToBag({Call(targetPositions[i], TRUE)})
    /\ UNCHANGED <<activeTab, crawledData, targetPositions, now>>
    /\ UNCHANGED <<isBatchProcessing, batches>>
    /\ UNCHANGED dashboardVars

\* handleCrawl up to the await, within the bound of the session
HandleCrawl(i) == HandleCrawlAmong(i, MaxPending)

\* faulty variant of handleDataCollected: setCrawledData(newData)
handleDataCollected_replaces(newData) == crawledData' = newData

\* handleDataCollected
handleDataCollected(newData) == crawledData' = crawledData \o newData

\* faulty variant of CrawlCompleted: the postings are handed over only while
\* the component that made the call is mounted
CrawlCompleted_dropsWhenUnmounted(call, newData, t) ==
    /\ IF call.mounted THEN handleDataCollected(newData) ELSE UNCHANGED crawledData
    /\ pending' = pending (-) SetToBag({call})
    /\ loadingMap' = IF call.mounted
                     THEN Spread(loadingMap, call.target.id, FALSE)
                     ELSE loadingMap
    /\ now' = t
    /\ UNCHANGED <<activeTab, targetPositions>>
    /\ UNCHANGED <<errorMap, isBatchProcessing, batches>>
    /\ UNCHANGED dashboardVars

\* handleCrawl after the await: handleDataCollected appends newData and the
\* finally block clears the loading flag of the instance that made the call
CrawlCompleted(call, newData, t) ==
    /\ handleDataCollected(newData)
    /\ pending' = pending (-) SetToBag({call})
    /\ loadingMap' = IF call.mounted
                     THEN Spread(loadingMap, call.target.id, FALSE)
                     ELSE loadingMap
    /\ now' = t
    /\ UNCHANGED <<activeTab, targetPositions>>
    /\ UNCHANGED <<errorMap, isBatchProcessing, batches>>
    /\ UNCHANGED dashboardVars

\* the provider answers with a parsable array at time t
ProviderReturns(call, rawData, t) ==
    /\ BagIn(call, pending)
    /\ t >= now
    /\ Len(crawledData) + Len(simulateMarketCrawl(call.target, rawData, t)) <= MaxData
    /\ CrawlCompleted(call, simulateMarketCrawl(call.target, rawData, t), t)

\* the provider call fails, or its answer does not parse, at time t
ProviderFails(call, t) ==
    /\ BagIn(call, pending)
    /\ t >= now
    /\ Len(crawledData) + 1 <= MaxData
    /\ CrawlCompleted(call, CrawlFallback(call.target), t)

\* handleBatchCrawl up to the first await: the flag is set and handleCrawl is
\* entered for the first position
HandleBatchCrawl ==
    /\ activeTab = "collection"
    /\ ~isBatchProcessing
    /\ Len(targetPositions) # 0
    /\ BagCardinality(batches) < MaxBatches
    /\ isBatchProcessing' = TRUE
    /\ loadingMap' = Spread(loadingMap, targetPositions[1].id, TRUE)
    /\ errorMap' = Spread(errorMap, targetPositions[1].id, "")
    /\ batches' = batches (+) SetToBag({Loop(targetPositions, 1, "calling", TRUE)})
    /\ UNCHANGED <<activeTab, crawledData, targetPositions, pending, now>>
    /\ UNCHANGED dashboardVars

\* the handleCrawl of a batch loop after its await: newData is appended, the
\* loading flag is cleared and the loop starts its 500 ms timer
BatchCrawlCompleted(loop, newData, t) ==
    /\ handleDataCollected(newData)
    /\ batches' = (batches (-) SetToBag({loop}))
                  (+) SetToBag({Loop(loop.positions, loop.index, "delay", loop.mounted)})
    /\ loadingMap' = IF loop.mounted
                     THEN Spread(loadingMap, loop.positions[loop.index].id, FALSE)
                     ELSE loadingMap
    /\ now' = t
    /\ UNCHANGED <<activeTab, targetPositions, pending>>
    /\ UNCHANGED <<errorMap, isBatchProcessing>>
    /\ UNCHANGED dashboardVars

\* the provider answers the call of a batch loop with a parsable array
BatchProviderReturns(loop, rawData, t) ==
    /\ BagIn(loop, batches)
    /\ loop.phase = "calling"
    /\ t >= now
    /\ LET newData == simulateMarketCrawl(loop.positions[loop.index], rawData, t)
       IN  /\ Len(crawledData) + Len(newData) <= MaxData
           /\ BatchCrawlCompleted(loop, newData, t)

\* faulty variant of BatchProviderFails: handleCrawl rejects, which ends the
\* loop before setIsBatchProcessing(false)
BatchProviderFails_rejects(loop, t) ==
    /\ BagIn(loop, batches)
    /\ loop.phase = "calling"
    /\ t >= now
    /\ batches' = batches (-) SetToBag({loop})
    /\ loadingMap' = IF loop.mounted
                     THEN Spread(loadingMap, loop.positions[loop.index].id, FALSE)
                     ELSE loadingMap
    /\ now' = t
    /\ UNCHANGED <<activeTab, crawledData, targetPositions, pending>>
    /\ UNCHANGED <<errorMap, isBatchProcessing>>
    /\ UNCHANGED dashboardVars

\* the provider call of a batch loop fails
BatchProviderFails(loop, t) ==
    /\ BagIn(loop, batches)
    /\ loop.phase = "calling"
    /\ t >= now
    /\ Len(crawledData) + 1 <= MaxData
    /\ BatchCrawlCompleted(loop, CrawlFallback(loop.positions[loop.index]), t)

\* faulty variant of BatchContinues: the loop passes over the next position
BatchContinues_skipsNext(loop) ==
    /\ BagIn(loop, batches)
    /\ loop.phase = "delay"
    /\ IF loop.index + 1 < Len(loop.positions)
       THEN LET next == loop.positions[loop.index + 2]
            IN  /\ batches' = (batches (-) SetToBag({loop}))
                              (+) SetToBag({Loop(loop.positions, loop.index + 2,
                                                 "calling", loop.mounted)})
                /\ loadingMap' = IF loop.mounted
                                 THEN Spread(loadingMap, next.id, TRUE)
                                 ELSE loadingMap
                /\ errorMap' = IF loop.mounted
                               THEN Spread(errorMap, next.id, "")
                               ELSE errorMap
                /\ UNCHANGED isBatchProcessing
       ELSE /\ batches' = batches (-) SetToBag({loop})
            /\ isBatchProcessing' = IF loop.mounted THEN FALSE ELSE isBatchProcessing
            /\ UNCHANGED <<loadingMap, errorMap>>
    /\ UNCHANGED <<activeTab, crawledData, targetPositions, pending, now>>
    /\ UNCHANGED dashboardVars

\* the 500 ms timer of a batch loop fires: handleCrawl is entered for the
\* next position, or the loop ends and clears the flag
BatchContinues(loop) ==
    /\ BagIn(loop, batches)
    /\ loop.phase = "delay"
    /\ IF loop.index < Len(loop.positions)
       THEN LET next == loop.positions[loop.index + 1]
            IN  /\ batches' = (batches (-) SetToBag({loop}))
                              (+) SetToBag({Loop(loop.positions, loop.index + 1,
                                                 "calling", loop.mounted)})
                /\ loadingMap' = IF loop.mounted
                                 THEN Spread(loadingMap, next.id, TRUE)
                                 ELSE loadingMap
                /\ errorMap' = IF loop.mounted
                               THEN Spread(errorMap, next.id, "")
                               ELSE errorMap
                /\ UNCHANGED isBatchProcessing
       ELSE /\ batches' = batches (-) SetToBag({loop})
            /\ isBatchProcessing' = IF loop.mounted THEN FALSE ELSE isBatchProcessing
            /\ UNCHANGED <<loadingMap, errorMap>>
    /\ UNCHANGED <<activeTab, crawledData, targetPositions, pending, now>>
    /\ UNCHANGED dashboardVars

\* str.split(/[,，、\s]+/).filter(k => k.trim() !== ''): the runs of
\* characters between separators
RECURSIVE SplitList(_)
SplitList(str) ==
    IF str = <<>> THEN <<>>
    ELSE LET rest == SplitList(Tail(str))
         IN  IF Head(str) \in Separators THEN rest
             ELSE IF Len(str) > 1 /\ str[2] \notin Separators
                  THEN <<<<Head(str)>> \o Head(rest)>> \o Tail(rest)
                  ELSE <<<<Head(str)>>>> \o rest

\* Date.now().toString(): the session runs in the milliseconds that follow
\* 1700000000000, and the clock counts them
DateNowString(t) == "170000000000" \o ToString(t)

\* faulty variant of handleAddPosition: [newPosition, ...prev]
handleAddPosition_prepends(newPosition) ==
    targetPositions' = <<newPosition>> \o targetPositions

\* handleAddPosition
handleAddPosition(newPosition) == targetPositions' = Append(targetPositions, newPosition)

\* handleAddSubmit with the form fields as typed, at time t
HandleAddSubmit(newPosName, newPosRespon, newPosCompetitors, t) ==
    /\ activeTab = "collection"
    /\ ~(newPosName = <<>> \/ newPosRespon = <<>>)
    /\ t >= now
    /\ Len(targetPositions) < MaxPositions
    /\ handleAddPosition([id |-> DateNowString(t),
                          name |-> newPosName,
                          competitors |-> SplitList(newPosCompetitors)])
    /\ now' = t
    /\ UNCHANGED <<activeTab, crawledData, loadingMap, errorMap, isBatchProcessing,
                   batches, pending>>
    /\ UNCHANGED dashboardVars

\* the positions jsonData.forEach adds: one for each row that has a name and
\* responsibilities; random[i] is Math.floor(Math.random() * 1000) for row i
RECURSIVE ImportedPositions(_, _, _)
ImportedPositions(rows, random, t) ==
    IF rows = <<>> THEN <<>>
    ELSE LET n == Len(rows)
             front == ImportedPositions(SubSeq(rows, 1, n - 1), random, t)
             row == rows[n]
         IN  IF row.name # <<>> /\ row.resp # <<>>
             THEN Append(front,
                         [id |-> "imported-" \o DateNowString(t) \o "-"
                                     \o ToString(random[n]),
                          name |-> row.name,
                          competitors |-> SplitList(row.competitors)])
             ELSE front

\* handleFileChange on a file whose first sheet holds the rows, read at time t
HandleFileChange(rows, random, t) ==
    /\ activeTab = "collection"
    /\ t >= now
    /\ ImportedPositions(rows, random, t) # <<>>
    /\ Len(targetPositions) + Len(ImportedPositions(rows, random, t)) <= MaxPositions
    /\ targetPositions' = targetPositions \o ImportedPositions(rows, random, t)
    /\ now' = t
    /\ UNCHANGED <<activeTab, crawledData, loadingMap, errorMap, isBatchProcessing,
                   batches, pending>>
    /\ UNCHANGED dashboardVars

----------------------------------------------------------------------------
(* components/AnalysisDashboard.tsx: the aggregation pipeline *)

\* getFilterForPosition
getFilterForPosition(filters, id) ==
    IF id \in DOMAIN filters THEN filters[id]
    ELSE [mode |-> "ALL", selectedCompanies |-> <<>>]

\* faulty variant of MatchesLocation: d.location === loc
MatchesLocation_exact(d, locations) ==
    \E i \in DOMAIN locations : d.location = locations[i]

\* selectedLocations.some(loc => d.location.includes(loc))
MatchesLocation(d, locations) ==
    \E i \in DOMAIN locations : includes(d.location, locations[i])

\* steps 1 and 2: the postings of the position that pass the location filter
LocationData(data, pos, locations) ==
    LET raw == SelectSeq(data, LAMBDA d : d.targetPositionId = pos.id)
    IN  IF Len(locations) > 0
        THEN SelectSeq(raw, LAMBDA d : MatchesLocation(d, locations))
        ELSE raw

\* faulty variant of PosData: an empty CUSTOM selection keeps everything
PosData_emptyCustomKeepsAll(data, pos, locations, filters) ==
    LET located == LocationData(data, pos, locations)
        f == getFilterForPosition(filters, pos.id)
    IN  IF f.mode = "ONLY_COMPETITORS"
        THEN SelectSeq(located, LAMBDA d : d.isCompetitor)
        ELSE IF f.mode = "CUSTOM" /\ Len(f.selectedCompanies) > 0
        THEN SelectSeq(located,
                       LAMBDA d : arrayIncludes(f.selectedCompanies, d.companyName))
        ELSE located

\* faulty variant of PosData: CUSTOM matches by substring, as the tagging does
PosData_customSubstring(data, pos, locations, filters) ==
    LET located == LocationData(data, pos, locations)
        f == getFilterForPosition(filters, pos.id)
    IN  IF f.mode = "ONLY_COMPETITORS"
        THEN SelectSeq(located, LAMBDA d : d.isCompetitor)
        ELSE IF f.mode = "CUSTOM"
        THEN SelectSeq(located,
                       LAMBDA d : \E k \in DOMAIN f.selectedCompanies :
                                      includes(d.companyName, f.selectedCompanies[k]))
        ELSE located

\* faulty variant of PosData: a selection that is not empty is applied in
\* every mode
PosData_selectionInEveryMode(data, pos, locations, filters) ==
    LET located == LocationData(data, pos, locations)
        f == getFilterForPosition(filters, pos.id)
        chosen == IF Len(f.selectedCompanies) > 0 \/ f.mode = "CUSTOM"
                  THEN SelectSeq(located,
                           LAMBDA d : arrayIncludes(f.selectedCompanies, d.companyName))
                  ELSE located
    IN  IF f.mode = "ONLY_COMPETITORS"
        THEN SelectSeq(chosen, LAMBDA d : d.isCompetitor)
        ELSE chosen

\* steps 1 to 3: posData after the local competitor filter
PosData(data, pos, locations, filters) ==
    LET located == LocationData(data, pos, locations)
        f == getFilterForPosition(filters, pos.id)
    IN  IF f.mode = "ONLY_COMPETITORS"
        THEN SelectSeq(located, LAMBDA d : d.isCompetitor)
        ELSE IF f.mode = "CUSTOM"
        THEN SelectSeq(located,
                       LAMBDA d : arrayIncludes(f.selectedCompanies, d.companyName))
        ELSE located

\* posData.map(d => (d.minMonthlySalary + d.maxMonthlySalary) / 2), times Half
monthlySalaries(posData) ==
    [i \in DOMAIN posData |->
        posData[i].minMonthlySalary + posData[i].maxMonthlySalary]

\* faulty variant of yearlySalaries: twelve months for every posting
yearlySalaries_twelveMonths(posData) ==
    [i \in DOMAIN posData |->
        (posData[i].minMonthlySalary + posData[i].maxMonthlySalary) * 12]

\* posData.map(d => ((min + max) / 2) * d.monthsPerYear), times Half
yearlySalaries(posData) ==
    [i \in DOMAIN posData |->
        (posData[i].minMonthlySalary + posData[i].maxMonthlySalary)
            * posData[i].monthsPerYear]

\* Array.from(new Set(arr)): the first occurrences, in order
RECURSIVE Distinct(_)
Distinct(arr) ==
    IF arr = <<>> THEN <<>>
    ELSE LET front == Distinct(SubSeq(arr, 1, Len(arr) - 1))
             last == arr[Len(arr)]
         IN  IF arrayIncludes(front, last) THEN front ELSE Append(front, last)

RECURSIVE InsertString(_, _)
InsertString(x, s) ==
    IF s = <<>> THEN <<x>>
    ELSE IF SortsBefore(x, Head(s)) THEN <<x>> \o s
         ELSE <<Head(s)>> \o InsertString(x, Tail(s))

\* arr.sort() on strings
RECURSIVE SortStrings(_)
SortStrings(arr) ==
    IF arr = <<>> THEN <<>>
    ELSE InsertString(arr[Len(arr)], SortStrings(SubSeq(arr, 1, Len(arr) - 1)))

\* availableCompaniesInLocation of one position
availableCompaniesInLocation(data, pos, locations) ==
    LET located == LET raw == SelectSeq(data, LAMBDA d : d.targetPositionId = pos.id)
                   IN  SelectSeq(raw, LAMBDA d : Len(locations) = 0
                                                 \/ MatchesLocation(d, locations))
    IN  SortStrings(Distinct([i \in DOMAIN located |-> located[i].companyName]))

\* faulty variant of PositionResult: sampleSize is taken before the local
\* competitor filter
PositionResult_countsLocated(data, pos, locations, filters) ==
    LET posData == PosData(data, pos, locations, filters)
    IN  [targetPosition |-> pos,
         monthly |-> computeSalaryStats(monthlySalaries(posData)),
         yearly |-> computeSalaryStats(yearlySalaries(posData)),
         sampleSize |-> Len(LocationData(data, pos, locations)),
         availableCompaniesInLocation |->
             availableCompaniesInLocation(data, pos, locations)]

\* faulty variant of PositionResult: the company list is taken from the
\* sample, after the local competitor filter
PositionResult_companiesOfSample(data, pos, locations, filters) ==
    LET posData == PosData(data, pos, locations, filters)
    IN  [targetPosition |-> pos,
         monthly |-> computeSalaryStats(monthlySalaries(posData)),
         yearly |-> computeSalaryStats(yearlySalaries(posData)),
         sampleSize |-> Len(posData),
         availableCompaniesInLocation |->
             SortStrings(Distinct([i \in DOMAIN posData |-> posData[i].companyName]))]

\* the object built for one position by targetPositions.map; the stats are
\* times Half * Scale
PositionResult(data, pos, locations, filters) ==
    LET posData == PosData(data, pos, locations, filters)
    IN  [targetPosition |-> pos,
         monthly |-> computeSalaryStats(monthlySalaries(posData)),
         yearly |-> computeSalaryStats(yearlySalaries(posData)),
         sampleSize |-> Len(posData),
         availableCompaniesInLocation |->
             availableCompaniesInLocation(data, pos, locations)]

\* faulty variant of Emitted: results with sampleSize 0 are hidden, as in the
\* earlier version of the dashboard
Emitted_hidesEmptySample(data, stat, query) ==
    IF query # <<>>
       /\ ~includes(toLowerCase(stat.targetPosition.name), toLowerCase(query))
    THEN FALSE
    ELSE stat.sampleSize # 0

\* the predicate of the trailing .filter: the search text, then hasAnyData
Emitted(data, stat, query) ==
    IF query # <<>>
       /\ ~includes(toLowerCase(stat.targetPosition.name), toLowerCase(query))
    THEN FALSE
    ELSE \E i \in DOMAIN data : data[i].targetPositionId = stat.targetPosition.id

\* faulty variant of Aggregate: the search text is not applied
Aggregate_ignoresSearch(data, positions, locations, filters, query) ==
    SelectSeq([i \in DOMAIN positions |->
                  PositionResult(data, positions[i], locations, filters)],
              LAMBDA stat : Emitted(data, stat, <<>>))

\* the aggregatedStats memo as a function of its dependencies
Aggregate(data, positions, locations, filters, query) ==
    SelectSeq([i \in DOMAIN positions |->
                  PositionResult(data, positions[i], locations, filters)],
              LAMBDA stat : Emitted(data, stat, query))

\* aggregatedStats in the current state
aggregatedStats ==
    Aggregate(crawledData, targetPositions, selectedLocations, positionFilters,
              searchQuery)

\* stats.reduce((acc, curr) => acc + curr.sampleSize, 0)
RECURSIVE validDataCount(_)
validDataCount(stats) ==
    IF stats = <<>> THEN 0
    ELSE validDataCount(SubSeq(stats, 1, Len(stats) - 1)) + stats[Len(stats)].sampleSize

\* the array handed to computeSalaryStats as the call leaves it: the spread
\* [...salaries] is what gets sorted
SampleAfterCall_sortedInPlace(sample) == SortAscending(sample)

SampleAfterCall(sample) == sample

----------------------------------------------------------------------------
(* components/AnalysisDashboard.tsx: the controls *)

\* the dashboard is mounted and past its "no data" early return
ControlsShown == activeTab = "analysis" /\ Len(crawledData) > 0

\* updatePositionFilter
updatePositionFilter(id, newFilter) ==
    /\ positionFilters' = Spread(positionFilters, id, newFilter)
    /\ UNCHANGED <<selectedLocations, searchQuery>>
    /\ UNCHANGED appVars

\* the search box: onChange, or the clear button (q = "")
SetSearchQuery(q) ==
    /\ ControlsShown
    /\ q # searchQuery
    /\ searchQuery' = q
    /\ UNCHANGED <<selectedLocations, positionFilters>>
    /\ UNCHANGED appVars

\* MultiSelect.toggleOption on the location filter
ToggleLocation(option) ==
    /\ ControlsShown
    /\ arrayIncludes(LOCATIONS, option)
    /\ selectedLocations' =
           IF arrayIncludes(selectedLocations, option)
           THEN SelectSeq(selectedLocations, LAMBDA item : item # option)
           ELSE Append(selectedLocations, option)
    /\ UNCHANGED <<searchQuery, positionFilters>>
    /\ UNCHANGED appVars

\* MultiSelect.handleSelectAll on the location filter
SelectAllLocations ==
    /\ ControlsShown
    /\ selectedLocations' =
           IF Len(selectedLocations) = Len(LOCATIONS) THEN <<>> ELSE LOCATIONS
    /\ UNCHANGED <<searchQuery, positionFilters>>
    /\ UNCHANGED appVars

\* PositionCompetitorFilter.handleSelectAll on the card of result r
HandleSelectAll(r) ==
    /\ ControlsShown
    /\ r \in DOMAIN aggregatedStats
    /\ updatePositionFilter(aggregatedStats[r].targetPosition.id,
                            [mode |-> "ALL", selectedCompanies |-> <<>>])

\* PositionCompetitorFilter.handleSelectCompetitorsOnly on the card of result r
HandleSelectCompetitorsOnly(r) ==
    /\ ControlsShown
    /\ r \in DOMAIN aggregatedStats
    /\ updatePositionFilter(aggregatedStats[r].targetPosition.id,
                            [mode |-> "ONLY_COMPETITORS", selectedCompanies |-> <<>>])

\* faulty variant of ToggledFilter: an empty selection reverts to ALL
ToggledFilter_revertsToAll(currentFilter, company) ==
    LET start == IF currentFilter.mode # "CUSTOM" THEN <<>>
                 ELSE currentFilter.selectedCompanies
        newSelected == IF arrayIncludes(start, company)
                       THEN SelectSeq(start, LAMBDA c : c # company)
                       ELSE Append(start, company)
    IN  IF newSelected = <<>> THEN [mode |-> "ALL", selectedCompanies |-> <<>>]
        ELSE [mode |-> "CUSTOM", selectedCompanies |-> newSelected]

\* the filter toggleCompany hands to onFilterChange
ToggledFilter(currentFilter, company) ==
    LET start == IF currentFilter.mode # "CUSTOM" THEN <<>>
                 ELSE currentFilter.selectedCompanies
        newSelected == IF arrayIncludes(start, company)
                       THEN SelectSeq(start, LAMBDA c : c # company)
                       ELSE Append(start, company)
    IN  [mode |-> "CUSTOM", selectedCompanies |-> newSelected]

\* PositionCompetitorFilter.toggleCompany: entry c of the company list on the
\* card of result r is clicked
ToggleCompany(r, c) ==
    /\ ControlsShown
    /\ r \in DOMAIN aggregatedStats
    /\ c \in DOMAIN aggregatedStats[r].availableCompaniesInLocation
    /\ LET stat == aggregatedStats[r]
           id == stat.targetPosition.id
       IN  updatePositionFilter(id,
               ToggledFilter(getFilterForPosition(positionFilters, id),
                             stat.availableCompaniesInLocation[c]))

----------------------------------------------------------------------------
(* The session *)

\* the value of result before computeSalaryStats has returned
NoStats == [min |-> 0, p25 |-> 0, p50 |-> 0, p75 |-> 0, max |-> 0, sampleSize |-> 0]

Init ==
    /\ InitApp
    /\ salaries = <<>>
    /\ called = FALSE
    /\ result = NoStats

Next ==
    \/ \E tab \in {"collection", "analysis"} :
           SetActiveTab(tab) /\ UNCHANGED statsVars
    \/ \E i \in CrawlTargets : HandleCrawl(i) /\ UNCHANGED statsVars
    \/ \E call \in BagToSet(pending), rawData \in RawResponses, t \in 0..MaxNow :
           ProviderReturns(call, rawData, t) /\ UNCHANGED statsVars
    \/ \E call \in BagToSet(pending), t \in 0..MaxNow :
           ProviderFails(call, t) /\ UNCHANGED statsVars
    \/ \E q \in SearchQueries : SetSearchQuery(q) /\ UNCHANGED statsVars
    \/ \E option \in ToggledLocations : ToggleLocation(option) /\ UNCHANGED statsVars
    \/ SelectAllLocations /\ UNCHANGED statsVars
    \/ \E r \in 1..Len(targetPositions) : HandleSelectAll(r) /\ UNCHANGED statsVars
    \/ \E r \in 1..Len(targetPositions) :
           HandleSelectCompetitorsOnly(r) /\ UNCHANGED statsVars
    \/ \E r \in 1..Len(targetPositions), c \in 1..MaxData :
           ToggleCompany(r, c) /\ UNCHANGED statsVars

Spec == Init /\ [][Next]_vars

----------------------------------------------------------------------------
(* The session with every operation of the collection tab: single and      *)
(* batch crawls, provider responses with missing fields, positions added   *)
(* by the form and by import, and the clock advancing                      *)

\* the aggregatedStats memo throws a TypeError: d.location.includes(loc) on a
\* posting of a listed position that has no location, reached when a
\* location is selected
AggregationThrows(data, positions, locations) ==
    /\ Len(locations) > 0
    /\ \E p \in DOMAIN positions, i \in DOMAIN data :
           /\ data[i].targetPositionId = positions[p].id
           /\ data[i].location = Undefined

\* the dashboard's render throws; no error boundary catches it, so React
\* unmounts the application
RenderThrows ==
    /\ activeTab = "analysis"
    /\ AggregationThrows(crawledData, targetPositions, selectedLocations)

\* the crawl buttons clicked: the first seed position and the first added one
CollectTargets == {1, 5}

\* the items of the provider's responses: one without location and one
\* without companyName
CollectItems ==
    {[companyName |-> <<"S", "h", "e", "i", "n">>, location |-> Undefined,
      minMonthlySalary |-> 10000, maxMonthlySalary |-> 20000, monthsPerYear |-> 13],
     [companyName |-> Undefined, location |-> <<"shenzhen">>,
      minMonthlySalary |-> 15000, maxMonthlySalary |-> 25000, monthsPerYear |-> 12]}

CollectResponses == UNION {[1..n -> CollectItems] : n \in 0..1}

\* the competitor text typed into the form
FormCompetitors == <<>>

\* the imported sheet: two complete rows and, between them, one without
\* responsibilities
Sheet ==
    <<[name |-> <<"caigou">>, resp |-> <<"xunyuan">>,
       competitors |-> <<"bangu", ",", " ", "xike">>],
      [name |-> <<"caigou">>, resp |-> <<>>, competitors |-> <<>>],
      [name |-> <<"caigou">>, resp |-> <<"xunyuan">>,
       competitors |-> <<"bangu", ",", " ", "xike">>]>>

\* the values Math.floor(Math.random() * 1000) takes for the rows of the sheet
RandomDraws == {<<0, 0, 0>>, <<0, 0, 999>>}

\* the positions the provider has postings for, or fails on: the first seed
\* position and the added ones; for the others its array is empty
Found(target) == target.id \notin {"2", "3", "4"}

\* a step of the application while it is mounted
Running(step) == ~RenderThrows /\ step /\ UNCHANGED statsVars

NextCollection ==
    \/ \E tab \in {"collection", "analysis"} : Running(SetActiveTab(tab))
    \/ \E i \in CollectTargets : Running(HandleCrawl(i))
    \/ \E call \in BagToSet(pending), rawData \in CollectResponses, t \in 0..MaxClock :
           /\ rawData = <<>> \/ Found(call.target)
           /\ Running(ProviderReturns(call, rawData, t))
    \/ \E call \in BagToSet(pending), t \in 0..MaxClock :
           Found(call.target) /\ Running(ProviderFails(call, t))
    \/ Running(HandleBatchCrawl)
    \/ \E loop \in BagToSet(batches), rawData \in CollectResponses, t \in 0..MaxClock :
           /\ rawData = <<>> \/ Found(loop.positions[loop.index])
           /\ Running(BatchProviderReturns(loop, rawData, t))
    \/ \E loop \in BagToSet(batches), t \in 0..MaxClock :
           Found(loop.positions[loop.index]) /\ Running(BatchProviderFails(loop, t))
    \/ \E loop \in BagToSet(batches) : Running(BatchContinues(loop))
    \/ \E t \in 0..MaxClock :
           Running(HandleAddSubmit(<<"caigou">>, <<"xunyuan">>, FormCompetitors, t))
    \/ \E random \in RandomDraws, t \in 0..MaxClock :
           Running(HandleFileChange(Sheet, random, t))
    \/ \E option \in ToggledLocations : Running(ToggleLocation(option))

SpecCollection == Init /\ [][NextCollection]_vars

----------------------------------------------------------------------------
(* Overlapping crawls: single crawls of two positions and a batch crawl,  *)
(* the calls completing in any order, with tab switches in between        *)

\* the provider's responses: the empty array, or one item
OverlapResponses ==
    {<<>>,
     <<[companyName |-> <<"S", "h", "e", "i", "n">>, location |-> <<"guangzhou">>,
        minMonthlySalary |-> 10000, maxMonthlySalary |-> 20000, monthsPerYear |-> 13]>>}

\* the provider answers the call of a single crawl
CallAnswered ==
    \/ \E call \in BagToSet(pending), rawData \in OverlapResponses, t \in 0..MaxNow :
           ProviderReturns(call, rawData, t)
    \/ \E call \in BagToSet(pending), t \in 0..MaxNow : ProviderFails(call, t)

\* the provider answers the call of a batch loop
BatchCallAnswered ==
    \/ \E loop \in BagToSet(batches), rawData \in OverlapResponses, t \in 0..MaxNow :
           BatchProviderReturns(loop, rawData, t)
    \/ \E loop \in BagToSet(batches), t \in 0..MaxNow : BatchProviderFails(loop, t)

\* the timer of a batch loop fires
TimerFires == \E loop \in BagToSet(batches) : BatchContinues(loop)

NextOverlap ==
    \/ \E tab \in {"collection", "analysis"} :
           SetActiveTab(tab) /\ UNCHANGED statsVars
    \/ \E i \in CrawlTargets : HandleCrawlAmong(i, MaxOverlap) /\ UNCHANGED statsVars
    \/ HandleBatchCrawl /\ UNCHANGED statsVars
    \/ CallAnswered /\ UNCHANGED statsVars
    \/ BatchCallAnswered /\ UNCHANGED statsVars
    \/ TimerFires /\ UNCHANGED statsVars

SpecOverlap == Init /\ [][NextOverlap]_vars

\* the same, with the provider answering in the end while a call is in
\* flight and a timer firing in the end while one is set
SpecOverlapFair ==
    /\ SpecOverlap
    /\ WF_vars(CallAnswered /\ UNCHANGED statsVars)
    /\ WF_vars(BatchCallAnswered /\ UNCHANGED statsVars)
    /\ WF_vars(TimerFires /\ UNCHANGED statsVars)

----------------------------------------------------------------------------
(* The aggregation on its own: one run of the dashboard's memos on a       *)
(* collection, a location filter, position filters and a search text of    *)
(* the bounded sets                                                        *)

\* most postings of the collection the run is given
MaxPostings == 3

\* the items the postings are made of: the three of RawItems and one
\* without location, which pays the mean of the second in more months
AggregateItems ==
    RawItems \cup
    {[companyName |-> <<"bangu">>, location |-> Undefined,
      minMonthlySalary |-> 15001, maxMonthlySalary |-> 25000, monthsPerYear |-> 16]}

\* the collections: crawl k, made at time k for the first or the third seed
\* position, returned one item
Collections ==
    UNION {{[k \in 1..n |-> CrawlSuccess(TARGET_POSITIONS[targets[k]],
                                          <<items[k]>>, k)[1]] :
               targets \in [1..n -> {1, 3}], items \in [1..n -> AggregateItems]} :
           n \in 0..MaxPostings}

\* the filter maps: none set, and the first position's filter in each mode
FilterMaps ==
    {EmptyRecord,
     [id \in {"1"} |-> [mode |-> "ONLY_COMPETITORS", selectedCompanies |-> <<>>]],
     [id \in {"1"} |-> [mode |-> "CUSTOM",
                        selectedCompanies |-> <<<<"S", "h", "e", "i", "n">>>>]],
     [id \in {"1"} |-> [mode |-> "ALL", selectedCompanies |-> <<>>]]}

InitAggregate ==
    /\ activeTab = "analysis"
    /\ crawledData \in Collections
    /\ targetPositions = TARGET_POSITIONS
    /\ loadingMap = EmptyRecord
    /\ errorMap = EmptyRecord
    /\ isBatchProcessing = FALSE
    /\ batches = EmptyBag
    /\ pending = EmptyBag
    /\ now = Len(crawledData)
    /\ selectedLocations \in {<<>>, <<<<"guangzhou">>>>}
    /\ searchQuery \in SearchQueries
    /\ positionFilters \in FilterMaps
    /\ salaries = <<>>
    /\ called = FALSE
    /\ result = <<>>

\* one render of the dashboard that does not throw: the memos are computed
\* from the props and the state; salaries records the monthly samples as
\* the calls of computeSalaryStats left them
RunAggregation ==
    /\ ~called
    /\ ~AggregationThrows(crawledData, targetPositions, selectedLocations)
    /\ result' = [aggregatedStats |-> aggregatedStats,
                  validDataCount |-> validDataCount(aggregatedStats),
                  total |-> Len(crawledData)]
    /\ salaries' = [p \in DOMAIN targetPositions |->
                       SampleAfterCall(monthlySalaries(
                           PosData(crawledData, targetPositions[p],
                                   selectedLocations, positionFilters)))]
    /\ called' = TRUE
    /\ UNCHANGED appVars
    /\ UNCHANGED dashboardVars

NextAggregate == RunAggregation

SpecAggregate == InitAggregate /\ [][NextAggregate]_vars

----------------------------------------------------------------------------
(* The percentile engine on its own: one call on a sample of the bounded set *)

Samples == UNION {[1..n -> SampleValues] : n \in 0..MaxLen}

InitStats ==
    /\ salaries \in Samples
    /\ called = FALSE
    /\ result = NoStats
    /\ InitApp

\* the call: the argument array is left as it was, the stats are returned
ComputeStats ==
    /\ ~called
    /\ result' = computeSalaryStats(salaries)
    /\ called' = TRUE
    /\ UNCHANGED salaries
    /\ UNCHANGED appVars
    /\ UNCHANGED dashboardVars

NextStats == ComputeStats

SpecStats == InitStats /\ [][NextStats]_vars

----------------------------------------------------------------------------
(* Reference notions the properties are stated with *)

\* the j-th smallest element (j in 1..Len(s)) of s, by counting
OrderStatistic(s, j) ==
    CHOOSE v \in {s[i] : i \in DOMAIN s} :
        /\ Cardinality({i \in DOMAIN s : s[i] < v}) < j
        /\ j <= Cardinality({i \in DOMAIN s : s[i] <= v})

\* the rank rule of the specification on the sample s for percentile P, in
\* quarters: 4 * L = (P / 25) * (n + 1), so d is a number of quarters
RankRuleQuarters(s, P) ==
    LET n == Len(s)
        L4 == (P \div 25) * (n + 1)
        k == L4 \div 4
        dq == L4 % 4
        idx == k - 1
    IN  IF idx < 0 THEN 4 * OrderStatistic(s, 1)
        ELSE IF idx >= n - 1 THEN 4 * OrderStatistic(s, n)
        ELSE 4 * OrderStatistic(s, idx + 1)
             + (OrderStatistic(s, idx + 2) - OrderStatistic(s, idx + 1)) * dq

Smallest(s) == CHOOSE v \in {s[i] : i \in DOMAIN s} : \A i \in DOMAIN s : v <= s[i]

Largest(s) == CHOOSE v \in {s[i] : i \in DOMAIN s} : \A i \in DOMAIN s : v >= s[i]

----------------------------------------------------------------------------
(* Properties of the percentile engine (SpecStats) *)

\* C1: for a sample of length n >= 2, p25/p50/p75 are the values of the rank
\* rule L = (P/100)(n+1), k = floor(L), d = L - k, idx = k - 1 on the sorted
\* sample (clamped low for idx < 0, high for idx >= n-1, interpolated
\* otherwise); [10000,20000,30000] gives 10000/20000/30000 and
\* [10000,15000,20000,25000] gives p50 = 17500.
C1_RankRule ==
    (called /\ Len(salaries) >= 2) =>
        /\ 4 * result.p25 = Scale * RankRuleQuarters(salaries, 25)
        /\ 4 * result.p50 = Scale * RankRuleQuarters(salaries, 50)
        /\ 4 * result.p75 = Scale * RankRuleQuarters(salaries, 75)
        /\ (salaries = <<10000, 20000, 30000>> =>
               /\ result.p25 = 10000 * Scale
               /\ result.p50 = 20000 * Scale
               /\ result.p75 = 30000 * Scale)
        /\ (salaries = <<10000, 15000, 20000, 25000>> =>
               result.p50 = 17500 * Scale)

\* C1 witness: an unsorted sample of four distinct values has been summarised,
\* with p25, p50 and p75 all strictly between two order statistics.
C1_Witness ==
    /\ called
    /\ salaries = <<20000, 10000, 25000, 15000>>
    /\ result.p25 = 11250 * Scale
    /\ result.p50 = 17500 * Scale
    /\ result.p75 = 23750 * Scale

\* C2: for any sample, min <= p25 <= p50 <= p75 <= max.
C2_Monotone ==
    called =>
        /\ result.min <= result.p25
        /\ result.p25 <= result.p50
        /\ result.p50 <= result.p75
        /\ result.p75 <= result.max

\* C2 witness: an unsorted sample of five values, one of them negative, has
\* been summarised and its five numbers are strictly increasing.
C2_Witness ==
    /\ called
    /\ Len(salaries) = 5
    /\ salaries[1] > salaries[2]
    /\ salaries[5] = -3
    /\ result.min < result.p25
    /\ result.p25 < result.p50
    /\ result.p50 < result.p75
    /\ result.p75 < result.max

\* C3: the empty sample gives min = p25 = p50 = p75 = max = 0 and
\* sampleSize = 0, as an ordinary value.
C3_EmptySample ==
    (called /\ salaries = <<>>) =>
        result = [min |-> 0, p25 |-> 0, p50 |-> 0, p75 |-> 0, max |-> 0,
                  sampleSize |-> 0]

\* C3 witness: computeSalaryStats has returned on the empty sample.
C3_Witness == called /\ Len(salaries) = 0

\* C4: a single-element sample [x] gives min = p25 = p50 = p75 = max = x and
\* sampleSize = 1.
C4_SingleElement ==
    (called /\ Len(salaries) = 1) =>
        LET x == salaries[1] * Scale
        IN  result = [min |-> x, p25 |-> x, p50 |-> x, p75 |-> x, max |-> x,
                      sampleSize |-> 1]

\* C4 witness: computeSalaryStats has returned on a one-element sample whose
\* element is not zero.
C4_Witness == called /\ Len(salaries) = 1 /\ salaries[1] = 15000

\* C6: for a non-empty sample in any order, min is its smallest and max its
\* largest element.
C6_MinMax ==
    (called /\ salaries # <<>>) =>
        /\ result.min = Smallest(salaries) * Scale
        /\ result.max = Largest(salaries) * Scale

\* C6 witness: a sample whose smallest element is neither first nor last and
\* whose largest element is first has been summarised.
C6_Witness ==
    /\ called
    /\ Len(salaries) = 3
    /\ salaries[2] < salaries[3]
    /\ salaries[3] < salaries[1]

----------------------------------------------------------------------------
(* Reference notions for the aggregation pipeline *)

\* sub occurs in str: some window of str carries the characters of sub
IsSubstring(sub, str) ==
    \E a \in 0..Len(str) :
        /\ a + Len(sub) <= Len(str)
        /\ \A k \in 1..Len(sub) : str[a + k] = sub[k]

\* the upper-case and lower-case forms of the letters that occur
SameLetter(c, d) ==
    \/ c = d
    \/ \E pair \in {<<"A", "a">>, <<"E", "e">>, <<"H", "h">>, <<"I", "i">>,
                    <<"N", "n">>, <<"Q", "q">>, <<"S", "s">>} :
           {c, d} = {pair[1], pair[2]}

\* sub occurs in str when case is ignored
IsSubstringIgnoringCase(sub, str) ==
    \E a \in 0..Len(str) :
        /\ a + Len(sub) <= Len(str)
        /\ \A k \in 1..Len(sub) : SameLetter(str[a + k], sub[k])

\* the filter in force for the position: its entry, or ALL when it has none
FilterInForce(pos) ==
    IF pos.id \in DOMAIN positionFilters THEN positionFilters[pos.id]
    ELSE [mode |-> "ALL", selectedCompanies |-> <<>>]

\* the posting passes the location filter of the current state
PassesLocation(d) ==
    \/ selectedLocations = <<>>
    \/ \E k \in DOMAIN selectedLocations : IsSubstring(selectedLocations[k], d.location)

\* the posting passes the position's company filter
PassesCompanyFilter(pos, d) ==
    LET f == FilterInForce(pos)
    IN  \/ f.mode = "ALL"
        \/ f.mode = "ONLY_COMPETITORS" /\ d.isCompetitor
        \/ f.mode = "CUSTOM"
           /\ d.companyName \in {f.selectedCompanies[k] : k \in DOMAIN f.selectedCompanies}

\* the indices of the postings of the position in the collection
IndicesOf(pos) ==
    {i \in DOMAIN crawledData : crawledData[i].targetPositionId = pos.id}

\* the indices of the postings that satisfy all three conditions
Survivors(pos) ==
    {i \in IndicesOf(pos) :
        PassesLocation(crawledData[i]) /\ PassesCompanyFilter(pos, crawledData[i])}

\* the postings at the indices I among the first n, in collection order
RECURSIVE PostingsAt(_, _)
PostingsAt(I, n) ==
    IF n = 0 THEN <<>>
    ELSE IF n \in I THEN Append(PostingsAt(I, n - 1), crawledData[n])
         ELSE PostingsAt(I, n - 1)

\* the sample of the position in the current state
CurrentPosData(pos) ==
    PosData(crawledData, pos, selectedLocations, positionFilters)

\* the result computed for the position in the current state
CurrentResult(pos) ==
    PositionResult(crawledData, pos, selectedLocations, positionFilters)

\* the position has a card in the emitted sequence
IsEmitted(pos) ==
    \E r \in DOMAIN aggregatedStats : aggregatedStats[r].targetPosition = pos

Positions == {targetPositions[p] : p \in DOMAIN targetPositions}

ZeroStats == [min |-> 0, p25 |-> 0, p50 |-> 0, p75 |-> 0, max |-> 0, sampleSize |-> 0]

\* samples of every length up to MaxLen over two values
SizeSamples == UNION {[1..n -> {10000, 20000}] : n \in 0..MaxLen}

----------------------------------------------------------------------------
(* Properties of the aggregation pipeline (Spec) *)

\* C5: computeSalaryStats(S).sampleSize is the length of S for every sample
\* S, and in every emitted result sampleSize, monthly.sampleSize and
\* yearly.sampleSize all equal the number of postings of the position that
\* survived the filters.
C5_SampleSize ==
    /\ \A S \in SizeSamples : computeSalaryStats(S).sampleSize = Len(S)
    /\ \A r \in DOMAIN aggregatedStats :
           LET stat == aggregatedStats[r]
               count == Cardinality(Survivors(stat.targetPosition))
           IN  /\ stat.sampleSize = count
               /\ stat.monthly.sampleSize = count
               /\ stat.yearly.sampleSize = count

\* C5 witness: an emitted result whose position has two postings of which
\* the filters keep exactly one.
C5_Witness ==
    \E r \in DOMAIN aggregatedStats :
        /\ Cardinality(IndicesOf(aggregatedStats[r].targetPosition)) = 2
        /\ aggregatedStats[r].sampleSize = 1
        /\ aggregatedStats[r].monthly.sampleSize = 1

\* C7: for every position the aggregated sample is exactly the postings with
\* the position's id that pass the location filter (empty, or some selected
\* location is a substring of the posting's location) and the position
\* filter (ALL / isCompetitor / companyName in selectedCompanies); with
\* location filter [Guangzhou] and ONLY_COMPETITORS it is the intersection
\* of the postings in Guangzhou with the competitor postings.
C7_FilterComposition ==
    \A pos \in Positions :
        /\ CurrentPosData(pos) = PostingsAt(Survivors(pos), Len(crawledData))
        /\ (selectedLocations = <<<<"guangzhou">>>>
            /\ FilterInForce(pos).mode = "ONLY_COMPETITORS") =>
               LET inA == {i \in IndicesOf(pos) :
                              IsSubstring(<<"guangzhou">>, crawledData[i].location)}
                   comp == {i \in IndicesOf(pos) : crawledData[i].isCompetitor}
                   hand == PostingsAt(inA \cap comp, Len(crawledData))
               IN  /\ CurrentResult(pos).sampleSize = Cardinality(inA \cap comp)
                   /\ monthlySalaries(CurrentPosData(pos)) = monthlySalaries(hand)
                   /\ yearlySalaries(CurrentPosData(pos)) = yearlySalaries(hand)

\* C7 witness: under location filter [Guangzhou] and ONLY_COMPETITORS a
\* position has a competitor posting in Guangzhou, which survives, and a
\* non-competitor posting in a district of Guangzhou, which does not.
C7_Witness ==
    \E pos \in Positions :
        /\ selectedLocations = <<<<"guangzhou">>>>
        /\ FilterInForce(pos).mode = "ONLY_COMPETITORS"
        /\ Cardinality(IndicesOf(pos)) = 2
        /\ \E i \in IndicesOf(pos) :
               /\ crawledData[i].location = <<"guangzhou", "tianhe">>
               /\ ~crawledData[i].isCompetitor
        /\ Len(CurrentPosData(pos)) = 1

\* C8: a position is in the emitted sequence if and only if some posting of
\* the collection has its id and its name contains the search text, case
\* ignored (the empty text excludes nothing).
C8_Visibility ==
    \A pos \in Positions :
        IsEmitted(pos) <=>
            /\ IndicesOf(pos) # {}
            /\ IsSubstringIgnoringCase(searchQuery, pos.name)

\* C8 witness: the search text "qa" is typed; the position QA, all of whose
\* postings are filtered out, is emitted, and a position without postings
\* is not.
C8_Witness ==
    /\ searchQuery = <<"q", "a">>
    /\ \E pos \in Positions :
           /\ pos.name = <<"Q", "A">>
           /\ IsEmitted(pos)
           /\ IndicesOf(pos) # {}
           /\ Survivors(pos) = {}
    /\ \E pos \in Positions : IndicesOf(pos) = {} /\ ~IsEmitted(pos)

\* the position's filter is degenerate: CUSTOM with nothing selected, or a
\* location filter that none of its postings matches
Degenerate(pos) ==
    \/ /\ FilterInForce(pos).mode = "CUSTOM"
       /\ FilterInForce(pos).selectedCompanies = <<>>
    \/ /\ selectedLocations # <<>>
       /\ \A i \in IndicesOf(pos) : ~PassesLocation(crawledData[i])

\* the result is the zero-sample result
IsZeroResult(stat) ==
    /\ stat.sampleSize = 0
    /\ stat.monthly = ZeroStats
    /\ stat.yearly = ZeroStats

\* C9, as claimed: a position that has postings and a degenerate filter is
\* present in the emitted sequence, with sampleSize = 0 and all-zero stats.
C9_AsClaimed ==
    \A pos \in Positions :
        (IndicesOf(pos) # {} /\ Degenerate(pos)) =>
            \E r \in DOMAIN aggregatedStats :
                /\ aggregatedStats[r].targetPosition = pos
                /\ IsZeroResult(aggregatedStats[r])

\* C9, amended: for a position that has postings and a degenerate filter the
\* result is the zero-sample result, and the position is present in the
\* emitted sequence with that result unless the search text excludes its
\* name.
C9_DegenerateFilter ==
    \A pos \in Positions :
        (IndicesOf(pos) # {} /\ Degenerate(pos)) =>
            /\ IsZeroResult(CurrentResult(pos))
            /\ IsSubstringIgnoringCase(searchQuery, pos.name) =>
                   \E r \in DOMAIN aggregatedStats :
                       /\ aggregatedStats[r].targetPosition = pos
                       /\ IsZeroResult(aggregatedStats[r])

\* C9 witness: one emitted position has a CUSTOM filter with nothing
\* selected, another emitted position has postings none of which matches the
\* location filter, and both show the zero-sample result.
C9_Witness ==
    \E r1, r2 \in DOMAIN aggregatedStats :
        /\ FilterInForce(aggregatedStats[r1].targetPosition).mode = "CUSTOM"
        /\ FilterInForce(aggregatedStats[r1].targetPosition).selectedCompanies = <<>>
        /\ IsZeroResult(aggregatedStats[r1])
        /\ r2 # r1
        /\ FilterInForce(aggregatedStats[r2].targetPosition).mode = "ALL"
        /\ selectedLocations # <<>>
        /\ IsZeroResult(aggregatedStats[r2])

\* C10: under a CUSTOM filter a posting that passes the location filter
\* survives if and only if its companyName equals an entry of
\* selectedCompanies; a name that contains an entry, or is contained in one,
\* without being equal to any does not survive.
C10_CustomExactMatch ==
    \A pos \in Positions :
        FilterInForce(pos).mode = "CUSTOM" =>
            LET selected == FilterInForce(pos).selectedCompanies
                kept == {CurrentPosData(pos)[k] : k \in DOMAIN CurrentPosData(pos)}
            IN  \A i \in IndicesOf(pos) :
                    PassesLocation(crawledData[i]) =>
                        /\ (crawledData[i] \in kept) <=>
                               (\E k \in DOMAIN selected :
                                    selected[k] = crawledData[i].companyName)
                        /\ Cardinality({k \in DOMAIN CurrentPosData(pos) :
                                            CurrentPosData(pos)[k] = crawledData[i]})
                               <= Cardinality({j \in IndicesOf(pos) :
                                                   crawledData[j] = crawledData[i]})

\* C10 witness: a CUSTOM filter selects a company; of the position's two
\* postings the one of that company survives and the one whose company name
\* contains the selected name does not.
C10_Witness ==
    \E pos \in Positions :
        /\ FilterInForce(pos).mode = "CUSTOM"
        /\ FilterInForce(pos).selectedCompanies = <<<<"S", "h", "e", "i", "n">>>>
        /\ Len(CurrentPosData(pos)) = 1
        /\ \E i \in IndicesOf(pos) :
               /\ PassesLocation(crawledData[i])
               /\ crawledData[i].companyName = <<"S", "h", "e", "i", "n", "keji">>

----------------------------------------------------------------------------
(* Properties of one run of the aggregation (SpecAggregate) *)

\* the results the run rendered
Rendered == result.aggregatedStats

\* C11: in every emitted result, the monthly stats are those of the sample
\* whose i-th value is (min + max) / 2 of the i-th surviving posting and the
\* yearly stats are those of the sample whose i-th value is that monthly
\* value times the same posting's monthsPerYear; a lone surviving posting
\* with min 10000, max 20000 and 13 months has the yearly value 195000.
C11_Annualization ==
    called =>
        \A r \in DOMAIN Rendered :
            LET stat == Rendered[r]
                hand == PostingsAt(Survivors(stat.targetPosition), Len(crawledData))
                monthly == [i \in DOMAIN hand |->
                               hand[i].minMonthlySalary + hand[i].maxMonthlySalary]
                yearly == [i \in DOMAIN hand |-> monthly[i] * hand[i].monthsPerYear]
            IN  /\ stat.monthly = computeSalaryStats(monthly)
                /\ stat.yearly = computeSalaryStats(yearly)
                /\ stat.monthly.sampleSize = stat.yearly.sampleSize
                /\ (Len(hand) = 1 /\ hand[1].minMonthlySalary = 10000
                    /\ hand[1].maxMonthlySalary = 20000 /\ hand[1].monthsPerYear = 13) =>
                       /\ stat.monthly.p50 = 15000 * Half * Scale
                       /\ stat.yearly.p50 = 195000 * Half * Scale
                       /\ stat.yearly.min = 195000 * Half * Scale
                       /\ stat.yearly.max = 195000 * Half * Scale

\* C11 witness: an emitted result over two surviving postings with the same
\* monthly value and different months per year, so that the yearly minimum
\* and maximum differ while the monthly ones agree; and an emitted result
\* over the lone posting of the worked example.
C11_Witness ==
    /\ called
    /\ \E r \in DOMAIN Rendered :
           /\ Rendered[r].sampleSize = 2
           /\ Rendered[r].monthly.min = Rendered[r].monthly.max
           /\ Rendered[r].yearly.min = 240006 * Half * Scale
           /\ Rendered[r].yearly.max = 320008 * Half * Scale
    /\ \E r \in DOMAIN Rendered :
           /\ Rendered[r].sampleSize = 1
           /\ Rendered[r].yearly.p50 = 195000 * Half * Scale

\* a comes before b in the order of the characters' code units: at the
\* first place where they differ a has the smaller character, or a is a
\* proper prefix of b
Precedes(a, b) ==
    \E n \in 0..Len(a) :
        /\ n <= Len(b)
        /\ \A k \in 1..n : a[k] = b[k]
        /\ \/ n = Len(a) /\ n < Len(b)
           \/ /\ n < Len(a)
              /\ n < Len(b)
              /\ CodeUnit(a[n + 1]) < CodeUnit(b[n + 1])

\* the filters a position's control can set
FilterChoices ==
    {[mode |-> "ALL", selectedCompanies |-> <<>>],
     [mode |-> "ONLY_COMPETITORS", selectedCompanies |-> <<>>],
     [mode |-> "CUSTOM", selectedCompanies |-> <<>>],
     [mode |-> "CUSTOM", selectedCompanies |-> <<<<"waimao", "keji">>>>]}

\* C12: in every emitted result the company list holds exactly the company
\* names of the position's postings that pass the location filter, each
\* once, in ascending order; it is the same list whatever the position's
\* company filter is, and the company name of every surviving posting is in
\* it.
C12_AvailableCompanies ==
    called =>
        \A r \in DOMAIN Rendered :
            LET stat == Rendered[r]
                pos == stat.targetPosition
                companies == stat.availableCompaniesInLocation
                located == {i \in IndicesOf(pos) : PassesLocation(crawledData[i])}
            IN  /\ {companies[k] : k \in DOMAIN companies}
                       = {crawledData[i].companyName : i \in located}
                /\ \A j, k \in DOMAIN companies :
                       j < k => Precedes(companies[j], companies[k])
                /\ \A f \in FilterChoices :
                       PositionResult(crawledData, pos, selectedLocations,
                                      Spread(positionFilters, pos.id, f))
                           .availableCompaniesInLocation = companies
                /\ \A i \in Survivors(pos) :
                       \E k \in DOMAIN companies : companies[k] = crawledData[i].companyName

\* C12 witness: under location filter [Guangzhou] and a CUSTOM filter that
\* keeps one posting, the position's list holds two companies in ascending
\* order (the upper-case S before the Chinese name), and the position has a
\* third posting that adds no name to the list.
C12_Witness ==
    /\ called
    /\ selectedLocations = <<<<"guangzhou">>>>
    /\ \E r \in DOMAIN Rendered :
           /\ FilterInForce(Rendered[r].targetPosition).mode = "CUSTOM"
           /\ Rendered[r].sampleSize = 1
           /\ Rendered[r].availableCompaniesInLocation
                  = <<<<"S", "h", "e", "i", "n">>, <<"waimao", "keji">>>>
           /\ Cardinality(IndicesOf(Rendered[r].targetPosition)) = 3

\* the position is shown: it has postings and its name contains the search
\* text, case ignored
Visible(pos) ==
    IndicesOf(pos) # {} /\ IsSubstringIgnoringCase(searchQuery, pos.name)

\* C13: the 'valid data' number is the number of postings that survive the
\* filters of a shown position (the sum of sampleSize over the emitted
\* results, which are those of the shown positions), and the number next to
\* it is the length of the whole collection.
C13_ValidDataCount ==
    called =>
        /\ result.validDataCount
               = Cardinality({pi \in (DOMAIN targetPositions) \X (DOMAIN crawledData) :
                                 /\ Visible(targetPositions[pi[1]])
                                 /\ pi[2] \in Survivors(targetPositions[pi[1]])})
        /\ result.validDataCount
               = Cardinality({ri \in (DOMAIN Rendered) \X (DOMAIN crawledData) :
                                 ri[2] <= Rendered[ri[1]].sampleSize})
        /\ result.total = Len(crawledData)

\* C13 witness: the search text hides a position whose postings survive the
\* filters, another position is shown with one surviving posting, and the
\* numbers shown are 1 and 3.
C13_Witness ==
    /\ called
    /\ searchQuery # <<>>
    /\ \E pos \in Positions : ~Visible(pos) /\ Survivors(pos) # {}
    /\ Len(Rendered) = 1
    /\ result.validDataCount = 1
    /\ result.total = 3

----------------------------------------------------------------------------
(* Properties of the session with the whole collection tab (SpecCollection) *)

\* s is an initial segment of t
IsPrefix(s, t) == Len(s) <= Len(t) /\ SubSeq(t, 1, Len(s)) = s

\* the positions of the list that the posting belongs to
OwnersOf(d) == {pos \in Positions : pos.id = d.targetPositionId}

\* C14, as claimed: in every reachable state the postings of the collection
\* have pairwise distinct ids.
C14_DistinctPostingIds ==
    \A i, j \in DOMAIN crawledData :
        i # j => crawledData[i].id # crawledData[j].id

\* C15, as claimed: for every posting of the collection, isCompetitor holds
\* if and only if the posting's companyName contains, case ignored, an entry
\* of the competitors list of the position it belongs to.
C15_CompetitorTag ==
    \A i \in DOMAIN crawledData :
        \A pos \in OwnersOf(crawledData[i]) :
            crawledData[i].isCompetitor <=>
                \E c \in DOMAIN pos.competitors :
                    IsSubstringIgnoringCase(pos.competitors[c], crawledData[i].companyName)

\* C16: every step leaves the collection as it was or extends it at the
\* end: the earlier collection is an initial segment of the later one.
C16_AppendOnly == [][IsPrefix(crawledData, crawledData')]_vars

\* C16 witness: a position was crawled twice, at different times, and both
\* crawls' postings are in the collection in the order of the crawls; a
\* position has been added, the dashboard is open and a batch loop started
\* on the collection tab is still running.
C16_Witness ==
    /\ Len(crawledData) = 2
    /\ crawledData[1].targetPositionId = crawledData[2].targetPositionId
    /\ crawledData[1].id = <<"1", "crawl", 0, 0>>
    /\ crawledData[2].id = <<"1", "crawl", 1, 0>>
    /\ Len(targetPositions) > Len(TARGET_POSITIONS)
    /\ activeTab = "analysis"
    /\ batches # EmptyBag

\* C17, as claimed: in every reachable state the target positions have
\* pairwise distinct ids.
C17_DistinctPositionIds ==
    \A p, q \in DOMAIN targetPositions :
        p # q => targetPositions[p].id # targetPositions[q].id

\* C18: the list starts as the seed list, and every step leaves it as it was
\* or appends to it: the earlier list is an initial segment of the later
\* one, a form submission appends one position and an import one position
\* for each complete row.
C18_PositionsAppendOnly ==
    /\ [](IsPrefix(TARGET_POSITIONS, targetPositions))
    /\ [][/\ IsPrefix(targetPositions, targetPositions')
          /\ Len(targetPositions') - Len(targetPositions) \in {0, 1, 2}]_vars

\* C18 witness: two positions have been added after the four seed ones,
\* postings have been collected for a seed position and an added one, and
\* the analysis tab is open.
C18_Witness ==
    /\ Len(targetPositions) = Len(TARGET_POSITIONS) + 2
    /\ SubSeq(targetPositions, 1, Len(TARGET_POSITIONS)) = TARGET_POSITIONS
    /\ targetPositions[5].name = <<"caigou">>
    /\ \E i, j \in DOMAIN crawledData :
           /\ crawledData[i].targetPositionId = "1"
           /\ crawledData[j].targetPositionId = targetPositions[5].id
    /\ activeTab = "analysis"

\* C19, as claimed: every posting of the collection has a location, a
\* companyName, a minMonthlySalary, a maxMonthlySalary and a monthsPerYear,
\* and the aggregation does not throw.
C19_TypedPostings ==
    /\ \A i \in DOMAIN crawledData :
           /\ crawledData[i].location # Undefined
           /\ crawledData[i].companyName # Undefined
           /\ crawledData[i].minMonthlySalary \in Int
           /\ crawledData[i].maxMonthlySalary \in Int
           /\ crawledData[i].monthsPerYear \in Int
    /\ ~RenderThrows

----------------------------------------------------------------------------
(* Purity of the aggregation (SpecAggregate) *)

\* s with the elements at a and b exchanged
Swap(s, a, b) ==
    [k \in DOMAIN s |-> IF k = a THEN s[b] ELSE IF k = b THEN s[a] ELSE s[k]]

\* the monthly sample of the position, built by hand in collection order
HandSample(pos) ==
    LET hand == PostingsAt(Survivors(pos), Len(crawledData))
    IN  [i \in DOMAIN hand |-> hand[i].minMonthlySalary + hand[i].maxMonthlySalary]

\* C20: a run of the aggregation changes neither the collection, the position
\* list, the location filter, the position filters nor the search text;
\* after it every array that was handed to computeSalaryStats still holds
\* its values in the order of the collection (it was not sorted in place);
\* and the stats of a sample are those of the sample with any two of its
\* elements exchanged, so they do not depend on the order of the elements.
C20_Pure ==
    /\ [][/\ crawledData' = crawledData
          /\ targetPositions' = targetPositions
          /\ selectedLocations' = selectedLocations
          /\ positionFilters' = positionFilters
          /\ searchQuery' = searchQuery]_vars
    /\ [](called =>
            \A p \in DOMAIN targetPositions :
                /\ salaries[p] = HandSample(targetPositions[p])
                /\ \A a, b \in DOMAIN salaries[p] :
                       computeSalaryStats(Swap(salaries[p], a, b))
                           = computeSalaryStats(salaries[p])
                /\ \A r \in DOMAIN Rendered :
                       Rendered[r].targetPosition = targetPositions[p] =>
                           \A a, b \in DOMAIN salaries[p] :
                               Rendered[r].monthly
                                   = computeSalaryStats(Swap(salaries[p], a, b)))

\* C20 witness: the run was handed a position whose three surviving postings
\* are not in ascending order of salary, and its sample is still in the
\* order of the collection.
C20_Witness ==
    /\ called
    /\ \E p \in DOMAIN targetPositions :
           /\ Len(salaries[p]) = 3
           /\ salaries[p][1] > salaries[p][2]
           /\ salaries[p][2] < salaries[p][3]
           /\ \E r \in DOMAIN Rendered :
                  /\ Rendered[r].targetPosition = targetPositions[p]
                  /\ Rendered[r].monthly.min = salaries[p][2] * Scale

----------------------------------------------------------------------------
(* Independence of the aggregation from selections that are not in force  *)
(* (SpecAggregate)                                                        *)

\* the selections given to filters whose mode is not CUSTOM
IgnoredSelections ==
    {<<>>,
     <<<<"waimao", "keji">>>>,
     <<<<"bangu">>, <<"S", "h", "e", "i", "n">>>>}

\* the filter map with the selection of every filter that is not CUSTOM
\* replaced by sel
WithSelection(filters, sel) ==
    [id \in DOMAIN filters |->
        IF filters[id].mode = "CUSTOM" THEN filters[id]
        ELSE [mode |-> filters[id].mode, selectedCompanies |-> sel]]

\* C21: the rendered results are those of every filter map that differs from
\* the one in force only in the selectedCompanies of filters whose mode is
\* not CUSTOM, and those of every filter map in which a position that has no
\* entry is given the entry ALL, with any selection.
C21_FilterIndependence ==
    called =>
        /\ \A sel \in IgnoredSelections :
               Rendered = Aggregate(crawledData, targetPositions, selectedLocations,
                                    WithSelection(positionFilters, sel), searchQuery)
        /\ \A p \in DOMAIN targetPositions, sel \in IgnoredSelections :
               targetPositions[p].id \notin DOMAIN positionFilters =>
                   Rendered = Aggregate(crawledData, targetPositions, selectedLocations,
                                        Spread(positionFilters, targetPositions[p].id,
                                               [mode |-> "ALL", selectedCompanies |-> sel]),
                                        searchQuery)

\* C21 witness: the first position's filter is ONLY_COMPETITORS and keeps one
\* of its two postings, the one of the company 'waimao keji' being dropped,
\* so that the same selection under CUSTOM gives other results; and a
\* position without a filter entry is rendered with a posting.
C21_Witness ==
    /\ called
    /\ "1" \in DOMAIN positionFilters
    /\ positionFilters["1"].mode = "ONLY_COMPETITORS"
    /\ \E r \in DOMAIN Rendered :
           /\ Rendered[r].targetPosition.id = "1"
           /\ Rendered[r].sampleSize = 1
           /\ arrayIncludes(Rendered[r].availableCompaniesInLocation,
                            <<"waimao", "keji">>)
    /\ Rendered # Aggregate(crawledData, targetPositions, selectedLocations,
                            Spread(positionFilters, "1",
                                   [mode |-> "CUSTOM",
                                    selectedCompanies |-> <<<<"waimao", "keji">>>>]),
                            searchQuery)
    /\ \E r \in DOMAIN Rendered :
           /\ Rendered[r].targetPosition.id \notin DOMAIN positionFilters
           /\ Rendered[r].sampleSize = 1

----------------------------------------------------------------------------
(* Sequencing of a batch crawl (SpecCollection) *)

\* the loop l has become the loop m by one step of its own: its provider
\* call completed and the postings of the position it was at, and nothing
\* else, were appended to the collection; or its timer fired and it went on
\* to the next position of its array, the collection staying as it was
LoopStep(l, m) ==
    /\ m.positions = l.positions
    /\ m.mounted = l.mounted
    /\ \/ /\ l.phase = "calling"
          /\ m.phase = "delay"
          /\ m.index = l.index
          /\ IsPrefix(crawledData, crawledData')
          /\ \A i \in (Len(crawledData) + 1)..Len(crawledData') :
                 crawledData'[i].targetPositionId = l.positions[l.index].id
       \/ /\ l.phase = "delay"
          /\ m.phase = "calling"
          /\ m.index = l.index + 1
          /\ m.index <= Len(l.positions)
          /\ crawledData' = crawledData

\* where the loops of a bag are: array, index and phase
Progress(bag) == {<<l.positions, l.index, l.phase>> : l \in BagToSet(bag)}

\* C22: a batch loop starts at the first position of the list as it is when
\* the batch is started; it is at one position at a time, so it has one
\* provider call in flight or none; it leaves a position only after that
\* position's call has completed and its postings are in the collection,
\* and then goes to the next position of its array; it ends only after the
\* call of the last position has completed.  So the positions present at
\* the start are crawled once each, in order.
C22_BatchSequencing ==
    [][\/ /\ Progress(batches') = Progress(batches)
          /\ BagCardinality(batches') = BagCardinality(batches)
       \/ /\ batches' = batches (+) SetToBag({Loop(targetPositions, 1, "calling", TRUE)})
          /\ Len(targetPositions) > 0
       \/ \E l \in BagToSet(batches), m \in BagToSet(batches') :
              /\ batches' = (batches (-) SetToBag({l})) (+) SetToBag({m})
              /\ LoopStep(l, m)
       \/ \E l \in BagToSet(batches) :
              /\ batches' = batches (-) SetToBag({l})
              /\ l.phase = "delay"
              /\ l.index = Len(l.positions)
              /\ crawledData' = crawledData]_vars

\* C22 witness: a batch started on a list of five positions has completed
\* the call of the fifth; the collection holds a posting of the first
\* position and, after it, one of the fifth; a sixth position, added after
\* the batch was started, is not in the loop's array.
C22_Witness ==
    \E l \in BagToSet(batches) :
        /\ l.phase = "delay"
        /\ l.index = 5
        /\ Len(l.positions) = 5
        /\ Len(targetPositions) = 6
        /\ Len(crawledData) = 2
        /\ crawledData[1].targetPositionId = l.positions[1].id
        /\ crawledData[2].targetPositionId = l.positions[5].id

----------------------------------------------------------------------------
(* Failed provider calls (SpecCollection) *)

\* the posting passes the location filter and the company filter f, stated
\* on the posting alone
Passes(d, locations, f) ==
    /\ locations = <<>> \/ \E k \in DOMAIN locations : IsSubstring(locations[k], d.location)
    /\ \/ f.mode = "ALL"
       \/ f.mode = "ONLY_COMPETITORS" /\ d.isCompetitor
       \/ f.mode = "CUSTOM" /\ \E k \in DOMAIN f.selectedCompanies :
                                   f.selectedCompanies[k] = d.companyName

\* the location filters a posting is tried against
TriedLocations == {<<>>, <<<<"guangzhou">>>>, <<<<"shenzhen">>>>}

\* what the step does when it completes a crawl of target whose provider
\* call failed: one posting of the target is appended, the position's
\* sample under any filters is the earlier one with that posting added if
\* it passes them, no error text is set, and the loading flag is cleared in
\* the component that made the call
FailedCrawlEffect(target, mounted) ==
    LET d == crawledData'[Len(crawledData')]
    IN  /\ Len(crawledData') = Len(crawledData) + 1
        /\ IsPrefix(crawledData, crawledData')
        /\ d.targetPositionId = target.id
        /\ \A locations \in TriedLocations, f \in FilterChoices :
               LET filters == Spread(EmptyRecord, target.id, f)
                   before == PosData(crawledData, target, locations, filters)
                   after == PosData(crawledData', target, locations, filters)
               IN  after = IF Passes(d, locations, f) THEN Append(before, d)
                           ELSE before
        /\ Emitted(crawledData', PositionResult(crawledData', target, <<>>, EmptyRecord),
                   <<>>)
        /\ errorMap' = errorMap
        /\ mounted => /\ errorMap'[target.id] = ""
                      /\ ~loadingMap'[target.id]

\* C23: no error text is ever recorded; and a step in which a provider call
\* fails, or its response parses but cannot be mapped, completes the crawl
\* (of a single click or of a batch loop) with the effect above.
C23_FallbackOnFailure ==
    /\ [](\A id \in DOMAIN errorMap : errorMap[id] = "")
    /\ [][/\ \A call \in BagToSet(pending), t \in 0..MaxClock :
                 (\/ ProviderFails(call, t)
                  \/ \E rawData \in CollectResponses :
                         /\ MapThrows(call.target, rawData)
                         /\ ProviderReturns(call, rawData, t))
                     => /\ FailedCrawlEffect(call.target, call.mounted)
                        /\ pending' = pending (-) SetToBag({call})
          /\ \A loop \in BagToSet(batches), t \in 0..MaxClock :
                 (\/ BatchProviderFails(loop, t)
                  \/ \E rawData \in CollectResponses :
                         /\ MapThrows(loop.positions[loop.index], rawData)
                         /\ BatchProviderReturns(loop, rawData, t))
                     => /\ FailedCrawlEffect(loop.positions[loop.index], loop.mounted)
                        /\ \E m \in BagToSet(batches') :
                               m.index = loop.index /\ m.phase = "delay"]_vars

\* C23 witness: on the collection tab the crawls of the first position and
\* of an added position without competitors have failed; the collection
\* holds the fallback posting of each, the error text of both is empty and
\* neither is loading.
C23_Witness ==
    /\ activeTab = "collection"
    /\ Len(targetPositions) > 4
    /\ Len(crawledData) = 2
    /\ \A i \in DOMAIN crawledData : crawledData[i].id = <<"fallback", "", 0, 1>>
    /\ crawledData[1].targetPositionId = "1"
    /\ crawledData[2].targetPositionId = targetPositions[5].id
    /\ crawledData[2].companyName = <<"weizhi", "gongsi">>
    /\ \A id \in {"1", targetPositions[5].id} :
           /\ id \in DOMAIN errorMap
           /\ errorMap[id] = ""
           /\ id \in DOMAIN loadingMap
           /\ ~loadingMap[id]

----------------------------------------------------------------------------
(* The company toggle of a position's filter (Spec) *)

\* the elements of a sequence
Elements(s) == {s[k] : k \in DOMAIN s}

\* no element occurs twice
NoDuplicates(s) == \A j, k \in DOMAIN s : j # k => s[j] # s[k]

\* C24: a click on a company of a position's list leaves the position's
\* filter in mode CUSTOM; coming from ALL or ONLY_COMPETITORS the selection
\* is that company alone; coming from CUSTOM the company is taken out if it
\* was selected, and put at the end otherwise, the others staying; taking
\* out the last one leaves CUSTOM with the empty selection; and no selection
\* ever holds a company twice.
C24_ToggleCompany ==
    /\ [](\A id \in DOMAIN positionFilters :
              NoDuplicates(positionFilters[id].selectedCompanies))
    /\ [][\A r \in DOMAIN aggregatedStats,
            c \in 1..MaxData :
              ToggleCompany(r, c) =>
                  LET id == aggregatedStats[r].targetPosition.id
                      company == aggregatedStats[r].availableCompaniesInLocation[c]
                      old == IF id \in DOMAIN positionFilters THEN positionFilters[id]
                             ELSE [mode |-> "ALL", selectedCompanies |-> <<>>]
                      new == positionFilters'[id]
                  IN  /\ new.mode = "CUSTOM"
                      /\ old.mode # "CUSTOM" => new.selectedCompanies = <<company>>
                      /\ old.mode = "CUSTOM" =>
                             IF company \in Elements(old.selectedCompanies)
                             THEN /\ Elements(new.selectedCompanies)
                                         = Elements(old.selectedCompanies) \ {company}
                                  /\ Len(new.selectedCompanies)
                                         = Len(old.selectedCompanies) - 1
                             ELSE new.selectedCompanies
                                      = old.selectedCompanies \o <<company>>
                      /\ (old.mode = "CUSTOM" /\ old.selectedCompanies = <<company>>) =>
                             new = [mode |-> "CUSTOM", selectedCompanies |-> <<>>]]_vars

\* C24 witness: a position that has postings is in mode CUSTOM with the
\* empty selection, which only taking out the last company gives, and
\* another position is in mode CUSTOM with one company selected.
C24_Witness ==
    \E p, q \in DOMAIN targetPositions :
        /\ IndicesOf(targetPositions[p]) # {}
        /\ targetPositions[p].id \in DOMAIN positionFilters
        /\ positionFilters[targetPositions[p].id]
               = [mode |-> "CUSTOM", selectedCompanies |-> <<>>]
        /\ targetPositions[q].id \in DOMAIN positionFilters
        /\ positionFilters[targetPositions[q].id].mode = "CUSTOM"
        /\ Len(positionFilters[targetPositions[q].id].selectedCompanies) = 1

----------------------------------------------------------------------------
(* The frame of a position's filter (Spec) *)

\* the filter in force for the position after the step
FilterInForceAfter(pos) ==
    IF pos.id \in DOMAIN positionFilters' THEN positionFilters'[pos.id]
    ELSE [mode |-> "ALL", selectedCompanies |-> <<>>]

\* the step is a click on the filter control of the card of position pos
OwnControl(pos) ==
    \E r \in DOMAIN aggregatedStats :
        /\ aggregatedStats[r].targetPosition = pos
        /\ \/ HandleSelectAll(r)
           \/ HandleSelectCompetitorsOnly(r)
           \/ \E c \in 1..MaxData : ToggleCompany(r, c)

\* C25, as claimed: in every step the filter in force for a position stays
\* as it was unless the step is a click on that position's own filter
\* control; so crawls, the location filter, the search text and switching
\* between the tabs leave every filter as it was last set.
C25_FilterFrame ==
    [][\A pos \in Positions :
           FilterInForceAfter(pos) # FilterInForce(pos) => OwnControl(pos)]_vars

----------------------------------------------------------------------------
(* Overlapping crawls (SpecOverlap) *)

\* the step appends to the collection one posting of the target for each
\* item of the response, in the order of the items
AppendsItems(target, rawData) ==
    /\ IsPrefix(crawledData, crawledData')
    /\ Len(crawledData') = Len(crawledData) + Len(rawData)
    /\ \A i \in DOMAIN rawData :
           LET d == crawledData'[Len(crawledData) + i]
           IN  /\ d.targetPositionId = target.id
               /\ d.companyName = rawData[i].companyName
               /\ d.location = rawData[i].location
               /\ d.minMonthlySalary = rawData[i].minMonthlySalary
               /\ d.maxMonthlySalary = rawData[i].maxMonthlySalary
               /\ d.monthsPerYear = rawData[i].monthsPerYear

\* the step appends to the collection the one fallback posting of the target
AppendsFallback(target) ==
    /\ IsPrefix(crawledData, crawledData')
    /\ Len(crawledData') = Len(crawledData) + 1
    /\ crawledData'[Len(crawledData')].targetPositionId = target.id

\* C26: no step takes a posting out of the collection, and every step in
\* which a provider call completes, whatever other calls are in flight and
\* whether or not the component that made the call is still mounted,
\* appends the postings of that call, each once: one for each item of the
\* response, or the fallback posting.  So once all calls have completed the
\* collection holds the postings of all of them.
C26_NoLostPostings ==
    [][/\ IsPrefix(crawledData, crawledData')
       /\ \A call \in BagToSet(pending), t \in 0..MaxNow :
              /\ \A rawData \in OverlapResponses :
                     ProviderReturns(call, rawData, t) =>
                         AppendsItems(call.target, rawData)
              /\ ProviderFails(call, t) => AppendsFallback(call.target)
       /\ \A loop \in BagToSet(batches), t \in 0..MaxNow :
              /\ \A rawData \in OverlapResponses :
                     BatchProviderReturns(loop, rawData, t) =>
                         AppendsItems(loop.positions[loop.index], rawData)
              /\ BatchProviderFails(loop, t) =>
                     AppendsFallback(loop.positions[loop.index])]_vars

\* C26 witness: the single crawls of the first and the third position and
\* the call of a batch loop are in flight together, all started by the
\* mounted component, the loop is at its second position, and the
\* collection holds the posting of the loop's first call.
C26_Witness ==
    /\ BagCardinality(pending) = 2
    /\ \A call \in BagToSet(pending) : call.mounted
    /\ {call.target.id : call \in BagToSet(pending)} = {"1", "3"}
    /\ \E loop \in BagToSet(batches) :
           /\ loop.mounted
           /\ loop.phase = "calling"
           /\ loop.index = 2
    /\ Len(crawledData) = 1
    /\ crawledData[1].targetPositionId = "1"

----------------------------------------------------------------------------
(* The loading flag and the calls in flight (SpecOverlap) *)

\* the sum of f over the set S
RECURSIVE Sum(_, _)
Sum(f, S) ==
    IF S = {} THEN 0
    ELSE LET x == CHOOSE y \in S : TRUE
         IN  f[x] + Sum(f, S \ {x})

\* the number of provider calls in flight for the position: those of single
\* crawls and those of batch loops that are at the position
InFlight(pos) ==
    Sum(pending, {call \in BagToSet(pending) : call.target.id = pos.id})
    + Sum(batches, {loop \in BagToSet(batches) :
                        /\ loop.phase = "calling"
                        /\ loop.positions[loop.index].id = pos.id})

\* C27, as claimed: in every reachable state in which the collection tab is
\* shown, a position for which a provider call is in flight has its loading
\* flag set (its crawl button is disabled), and no position has more than
\* one call in flight.
C27_LoadingWhileInFlight ==
    activeTab = "collection" =>
        \A pos \in Positions :
            /\ InFlight(pos) > 0 => isLoading(pos.id)
            /\ InFlight(pos) <= 1

----------------------------------------------------------------------------
(* The 'valid data' number against the size of the collection             *)
(* (SpecCollection)                                                       *)

\* C28, as claimed: in every reachable state in which the dashboard is shown
\* and its aggregation does not throw, the 'valid data' number is at most
\* the number of postings of the collection, and no posting is among the
\* surviving postings of more than one emitted result.
C28_ValidWithinTotal ==
    (activeTab = "analysis" /\ ~RenderThrows) =>
        /\ validDataCount(aggregatedStats) <= Len(crawledData)
        /\ \A i \in DOMAIN crawledData :
               Cardinality({r \in DOMAIN aggregatedStats :
                               i \in Survivors(aggregatedStats[r].targetPosition)}) <= 1

----------------------------------------------------------------------------
(* The CUSTOM selection against the company list shown (Spec) *)

\* C29, as claimed: in every reachable state, every company selected in a
\* CUSTOM filter of a position is in the company list the position's card
\* shows under the location filter in force.
C29_SelectionAvailable ==
    \A pos \in Positions :
        FilterInForce(pos).mode = "CUSTOM" =>
            \A k \in DOMAIN FilterInForce(pos).selectedCompanies :
                arrayIncludes(availableCompaniesInLocation(crawledData, pos,
                                                           selectedLocations),
                              FilterInForce(pos).selectedCompanies[k])

----------------------------------------------------------------------------
(* Termination of a batch crawl (SpecOverlapFair) *)

\* the loading flag of the position after the step
isLoadingAfter(id) == id \in DOMAIN loadingMap' /\ loadingMap'[id]

\* C30: with the provider answering in the end and the timers firing, a
\* batch-processing flag that is set is cleared again, whether the calls of
\* the loop return postings or fail; and in the state in which the flag is
\* cleared no position is loading.
C30_BatchTerminates ==
    /\ isBatchProcessing ~> ~isBatchProcessing
    /\ [][(isBatchProcessing /\ ~isBatchProcessing') =>
              \A pos \in Positions : ~isLoadingAfter(pos.id)]_vars

\* C30 witness: the mounted component's batch loop is at its last position,
\* after the call of its first position failed and with the single crawl of
\* the third position, started before the batch, still in flight; the flag
\* is set.
C30_Witness ==
    /\ isBatchProcessing
    /\ \E loop \in BagToSet(batches) :
           /\ loop.mounted
           /\ loop.index = Len(loop.positions)
           /\ loop.phase = "calling"
    /\ \E i \in DOMAIN crawledData : crawledData[i].id = <<"fallback", "", 0, 1>>
    /\ \E call \in BagToSet(pending) : call.mounted /\ call.target.id = "3"

====
